---- MODULE Spec2Model ----
(***************************************************************************)
(* A model of the telemetry store and distribution layer of python-libgqe  *)
(* (src/api_server.py): the shared_data store guarded by data_lock, the    *)
(* REST readers get_current / get_history / get_stats, the WebSocket       *)
(* subscriber set ws_clients guarded by ws_lock, and the writer            *)
(* update_shared_data with its broadcast.                                  *)
(*                                                                         *)
(* Every Python thread is a process of the model.  A step of the model is  *)
(* one operation that CPython runs without releasing the interpreter lock  *)
(* (one list append, one slice, one dict store, one lock operation), so    *)
(* that two threads interleave exactly where the interpreter lets them.    *)
(***************************************************************************)
EXTENDS Integers, Sequences, FiniteSets, TLC

(***************************************************************************)
(* Bounds of the model.                                                    *)
(***************************************************************************)
\* update_shared_data keeps the last max_points entries of every history
\* list (1000 at src/api_server.py:78).  The model runs the same code with a
\* small cap so that the eviction happens within a few writes.
max_points == 3
\* The number of update_shared_data calls of one run.
MaxCalls == 4
\* The number of one-minute steps the wall clock takes in one run.
MaxTicks == 2
\* The number of times the serial link of a device changes its state in one
\* run.
MaxLinkChanges == 3

\* The timer ticks (update_gui calls) of a run.
MaxGuiTicks == 2

(***************************************************************************)
(* Threads.                                                                *)
(***************************************************************************)
Writers == {"w1", "w2"}
Readers == {"r1", "r2"}
Subs    == {"s1", "s2"}
NoThread == "free"

\* The values of the query parameters minutes and points that are tried
\* (5 and 1000 are the defaults).
MinutesArgs == {1, 5}
PointsArgs  == {2, 1000}

\* The runs that are checked.  Each is the program with some of its threads
\* and clients present.  calls is the number of update_shared_data calls of
\* the run, ticks the number of one-minute steps of the clock (with none,
\* every minutes value gives the same window, and the default is used),
\* points the values of the query parameter points that are tried,
\* overlap whether a REST request and a write may be in progress together,
\* faults whether client connections fail, idle whether the handlers'
\* receive timeouts pass while the clients send nothing, detect whether the run is the
\* device bring-up at import of graph_faster, pollers the background readers
\* that run, links the states the serial link of each reader takes, readings
\* the values the devices report, script the program the readers belong to
\* (graph_faster.py, or graph.py with its simpler loops), linkchanges the
\* number of times a link changes its state, gui whether the window's timer
\* runs update_gui, guiticks the number of times it does, close whether the
\* user closes the window, gpsd_available and API_SERVER_ENABLED the module's
\* globals of these names.
NoRun ==
    [writers |-> {}, readers |-> {}, subs |-> {}, ops |-> {}, minutes |-> {},
     points |-> PointsArgs,
     overlap |-> TRUE, calls |-> 0, ticks |-> 0, faults |-> FALSE,
     detect |-> FALSE, pollers |-> {}, links |-> [p \in {"emf", "cpm"} |-> {}],
     readings |-> {}, script |-> "graph_faster",
     idle |-> FALSE, linkchanges |-> MaxLinkChanges, gui |-> FALSE, guiticks |-> MaxGuiTicks,
     close |-> FALSE, gpsd_available |-> FALSE, API_SERVER_ENABLED |-> FALSE]

\* The server and its clients:
\*   - a REST client whose requests fall between the writes of the tick;
\*   - a client whose /api/history requests overlap the writes;
\*   - a client whose /api/stats requests overlap the first write;
\*   - two writers beside a client that polls /api/current;
\*   - two writers feeding one subscriber;
\*   - one writer feeding two subscribers whose connections may stall or drop;
\*   - two REST clients whose /api/history requests fall between the writes;
\*   - two writers while the clock advances;
\*   - one writer feeding a subscriber that sends nothing, on a connection
\*     that may stall or drop.
StreamRuns ==
    { [NoRun EXCEPT !.writers = {"w1"}, !.subs = {"s1"}, !.calls = 2,
                    !.faults = TRUE, !.idle = TRUE] }

ServerRuns ==
    { [NoRun EXCEPT !.writers = {"w1"}, !.readers = {"r1"},
                    !.ops = {"current", "history", "stats"},
                    !.minutes = MinutesArgs, !.overlap = FALSE,
                    !.calls = MaxCalls, !.ticks = MaxTicks],
      [NoRun EXCEPT !.writers = {"w1"}, !.readers = {"r1"},
                    !.ops = {"history"}, !.minutes = {5}, !.calls = 2],
      [NoRun EXCEPT !.writers = {"w1"}, !.readers = {"r1"},
                    !.ops = {"stats"}, !.calls = 1],
      [NoRun EXCEPT !.writers = {"w1", "w2"}, !.readers = {"r1"},
                    !.ops = {"current"}, !.calls = MaxCalls],
      [NoRun EXCEPT !.writers = {"w1", "w2"}, !.subs = {"s1"}, !.calls = 3],
      [NoRun EXCEPT !.writers = {"w1"}, !.subs = {"s1", "s2"}, !.calls = 2,
                    !.faults = TRUE],
      [NoRun EXCEPT !.writers = {"w1"}, !.readers = {"r1", "r2"},
                    !.ops = {"history"}, !.minutes = {5}, !.points = {1, 2},
                    !.overlap = FALSE, !.calls = max_points],
      [NoRun EXCEPT !.writers = {"w1", "w2"}, !.calls = 2, !.ticks = 1] }
    \cup StreamRuns

\* The device bring-up, followed by the readers of the devices found.
DetectRuns ==
    { [NoRun EXCEPT !.detect = TRUE, !.pollers = {"emf", "cpm"},
                    !.links = [p \in {"emf", "cpm"} |-> {"ok"}],
                    !.readings = {1}, !.linkchanges = 0] }

\* The background readers, one at a time: a device whose responses may
\* not decode, a device whose link fails, and a device that is slow to
\* take a command at one time and answers what does not decode at another.
PollerRuns ==
    { [NoRun EXCEPT !.pollers = {p}, !.links[p] = {"ok", "garbage"},
                    !.readings = {1, 258}] : p \in {"emf", "cpm"} }
    \cup
    { [NoRun EXCEPT !.pollers = {p},
                    !.links[p] = {"ok", "timeout", "ioerror", "unplugged"},
                    !.readings = {1}] : p \in {"emf", "cpm"} }
    \cup
    { [NoRun EXCEPT !.pollers = {p},
                    !.links[p] = {"ok", "garbage", "timeout"},
                    !.readings = {1}] : p \in {"emf", "cpm"} }
    \cup
    { [NoRun EXCEPT !.pollers = {"emf"}, !.script = "graph",
                    !.links["emf"] = {"ok", "garbage", "ioerror"},
                    !.readings = {1}] }

\* The window's timer: with gpsd and the API server; with the API server
\* alone; beside both readers, one of which loses its device.
GuiRuns ==
    { [NoRun EXCEPT !.gui = TRUE, !.gpsd_available = TRUE,
                    !.API_SERVER_ENABLED = TRUE, !.ticks = 1],
      [NoRun EXCEPT !.gui = TRUE, !.API_SERVER_ENABLED = TRUE, !.ticks = 1],
      [NoRun EXCEPT !.gui = TRUE, !.pollers = {"emf", "cpm"},
                    !.links = [p \in {"emf", "cpm"} |->
                                  IF p = "emf" THEN {"ok", "unplugged"}
                                  ELSE {"ok"}],
                    !.readings = {1}, !.linkchanges = 1, !.guiticks = 1] }

\* graph.py: the two threads it starts on _emf_reader_loop.
SharedRuns ==
    { [NoRun EXCEPT !.pollers = {"emf", "emf2"}, !.script = "graph",
                    !.links["emf"] = {"ok"}, !.readings = {1},
                    !.linkchanges = 0] }

\* The window is closed while a reader runs whose link may fail once.
ShutdownRuns ==
    { [NoRun EXCEPT !.gui = TRUE, !.close = TRUE, !.guiticks = 0,
                    !.pollers = {p}, !.links[p] = {"ok", "ioerror"},
                    !.readings = {1}, !.linkchanges = 1] : p \in {"emf", "cpm"} }

Configs ==
    ServerRuns \cup DetectRuns \cup PollerRuns \cup GuiRuns \cup ShutdownRuns
        \cup SharedRuns

(***************************************************************************)
(* Data.                                                                   *)
(***************************************************************************)
\* The keys of shared_data['history'] in the dict's (insertion) order.
HistKeys == <<"timestamps", "cpm_h", "cpm_l", "emf", "rf", "ef",
              "altitude", "velocity">>
HistKeySet == {HistKeys[i] : i \in 1..Len(HistKeys)}

\* shared_data['current'] as the module creates it.
InitCurrent ==
    [timestamp |-> 0, cpm_h |-> 0, cpm_l |-> 0, emf |-> 0, rf |-> 0, ef |-> 0,
     altitude |-> 0, latitude |-> 0, longitude |-> 0, velocity |-> 0]

\* shared_data['history'] as the module creates it.
InitHistory == [k \in HistKeySet |-> <<>>]

\* The ten arguments of the v-th update_shared_data call, made at time ts.
\* The nine readings differ from channel to channel and from call to call, so
\* that a value stored under the wrong channel or kept from an earlier call
\* shows.
Sample(ts, v) ==
    [timestamp |-> ts,
     cpm_h     |-> 10 * v + 1, cpm_l     |-> 10 * v + 2,
     emf       |-> 10 * v + 3, rf        |-> 10 * v + 4,
     ef        |-> 10 * v + 5, altitude  |-> 10 * v + 6,
     latitude  |-> 10 * v + 7, longitude |-> 10 * v + 8,
     velocity  |-> 10 * v + 9]

NoSample == Sample(0, 0)

\* A plausible slip: two keys of the dict literal get each other's argument.
MakeCurrentSwapped(a) ==
    [timestamp |-> a.timestamp, cpm_h |-> a.cpm_h, cpm_l |-> a.cpm_l,
     emf |-> a.emf, rf |-> a.ef, ef |-> a.rf, altitude |-> a.altitude,
     latitude |-> a.latitude, longitude |-> a.longitude,
     velocity |-> a.velocity]

\* The dict update_shared_data stores as shared_data['current'].
MakeCurrent(a) ==
    [timestamp |-> a.timestamp, cpm_h |-> a.cpm_h, cpm_l |-> a.cpm_l,
     emf |-> a.emf, rf |-> a.rf, ef |-> a.ef, altitude |-> a.altitude,
     latitude |-> a.latitude, longitude |-> a.longitude,
     velocity |-> a.velocity]

\* The argument update_shared_data appends to the history list of key k.
HistValue(a, k) == IF k = "timestamps" THEN a.timestamp ELSE a[k]

\* values[-n:] for n > 0.
LastN(values, n) ==
    IF Len(values) <= n THEN values
    ELSE SubSeq(values, Len(values) - n + 1, Len(values))

\* A plausible slip: the trim keeps the first max_points entries.
TrimListKeepsOldest(values) ==
    IF Len(values) > max_points THEN SubSeq(values, 1, max_points) ELSE values

\* A plausible slip: the trim is off by one and keeps max_points + 1 entries.
TrimListOffByOne(values) ==
    IF Len(values) > max_points + 1 THEN LastN(values, max_points + 1)
    ELSE values

\* The list bound to a history key after the trim of update_shared_data.
TrimList(values) ==
    IF Len(values) > max_points THEN LastN(values, max_points) ELSE values

(***************************************************************************)
(* The REST readers' computations.                                         *)
(***************************************************************************)
NoArgs == [op |-> "none", minutes |-> 0, points |-> 0]

\* A local dict history refers, per key, either to the list that
\* shared_data['history'] is bound to (live) or to a list object that the
\* store has replaced since, whose content is val.
NoCopy == [k \in HistKeySet |-> [live |-> FALSE, val |-> <<>>]]
LiveCopy == [k \in HistKeySet |-> [live |-> TRUE, val |-> <<>>]]

\* The store binds key k to a new list: a dict that referred to the old list
\* object (content old) keeps referring to it.
Detach(h, k, old) ==
    IF h[k].live THEN [h EXCEPT ![k] = [live |-> FALSE, val |-> old]] ELSE h

NoDict == <<>>
NoResponse == [kind |-> "none"]

\* get_history's loop: the index of the first timestamp >= cutoff_time, and
\* 0 when the loop ends without a break.
StartIdx(timestamps, cutoff_time) ==
    LET hits == {i \in 1..Len(timestamps) : timestamps[i] >= cutoff_time}
    IN  IF hits = {} THEN 0
        ELSE (CHOOSE i \in hits : \A j \in hits : i <= j) - 1

\* values[start_idx:] for start_idx >= 0.
SliceFrom(values, start_idx) == SubSeq(values, start_idx + 1, Len(values))

\* A stride that starts at the step-th entry instead of the first.
StrideFromStep(values, step) ==
    IF step < 1 \/ Len(values) < step THEN <<>>
    ELSE [i \in 1..(Len(values) \div step) |-> values[i * step]]

\* values[::step]: every step-th entry from the first one for step >= 1,
\* every (-step)-th entry from the last one backwards for step <= -1.
Stride(values, step) ==
    IF values = <<>> THEN <<>>
    ELSE IF step >= 1
      THEN [i \in 1..((Len(values) - 1) \div step + 1) |->
                values[(i - 1) * step + 1]]
    ELSE [i \in 1..((Len(values) - 1) \div (-step) + 1) |->
              values[Len(values) - (i - 1) * (-step)]]

\* a // b of Python for a >= 0 and b # 0: the quotient rounded down.
FloorDiv(a, b) ==
    IF b > 0 THEN a \div b ELSE -((a + (-b) - 1) \div (-b))

\* The response Flask makes of an exception that leaves a view function.
InternalServerError(exc) == [kind |-> "error", status |-> 500, error |-> exc]

\* get_history's downsampling raises ZeroDivisionError at
\* step = len(...) // max_points when max_points is 0.
DownsampleRaises(filtered_history, points) ==
    Len(filtered_history["timestamps"]) > points /\ points = 0

\* get_history's downsampling of the dict filtered_history.
Downsample(filtered_history, points) ==
    IF Len(filtered_history["timestamps"]) > points
      THEN LET step == FloorDiv(Len(filtered_history["timestamps"]), points)
           IN  [k \in DOMAIN filtered_history |->
                    Stride(filtered_history[k], step)]
      ELSE filtered_history

\* What get_history answers once it has the dict filtered_history.
HistoryResponse(filtered_history, points) ==
    IF DownsampleRaises(filtered_history, points)
      THEN InternalServerError("ZeroDivisionError")
    ELSE [kind |-> "history", body |-> Downsample(filtered_history, points)]

\* What get_history returns when it runs alone on the history h.
GetHistoryOf(h, cutoff_time, points) ==
    IF h["timestamps"] = <<>> THEN h
    ELSE LET start_idx == StartIdx(h["timestamps"], cutoff_time)
         IN  Downsample([k \in HistKeySet |-> SliceFrom(h[k], start_idx)],
                        points)

\* The inputs get_history is run on by itself: the store after n writes made
\* a minute apart, the last of them just now, and the query parameters.
MaxStored == 5
HistoryMinutes == {-1, 0, 1, 2, 5}
HistoryPoints == -2..3

StoredHistory(n) ==
    [k \in HistKeySet |-> [i \in 1..n |-> HistValue(Sample(60 * i, i), k)]]

NoQuery == [h |-> InitHistory, now |-> 0, minutes |-> 0, points |-> 0]

HistoryQueries ==
    { [h |-> StoredHistory(n), now |-> 60 * n, minutes |-> m, points |-> p] :
          n \in 0..MaxStored, m \in HistoryMinutes, p \in HistoryPoints }

\* get_history's dict filtered_history for the query q.
FilteredHistory(q) ==
    LET start_idx == StartIdx(q.h["timestamps"], q.now - q.minutes * 60)
    IN  [k \in HistKeySet |-> SliceFrom(q.h[k], start_idx)]

\* The whole of get_history, run while no writer runs.
GetHistoryAnswer(q) ==
    IF q.h["timestamps"] = <<>> THEN [kind |-> "history", body |-> q.h]
    ELSE HistoryResponse(FilteredHistory(q), q.points)

RECURSIVE SeqSum(_)
SeqSum(values) ==
    IF values = <<>> THEN 0 ELSE values[1] + SeqSum(Tail(values))

SeqMin(values) ==
    CHOOSE x \in {values[i] : i \in 1..Len(values)} :
        \A i \in 1..Len(values) : x <= values[i]

SeqMax(values) ==
    CHOOSE x \in {values[i] : i \in 1..Len(values)} :
        \A i \in 1..Len(values) : x >= values[i]

RECURSIVE Gcd(_, _)
Gcd(a, b) == IF b = 0 THEN a ELSE Gcd(b, a % b)

\* The quotient total / count (count > 0, total >= 0) as a fraction in
\* lowest terms: two quotients are equal exactly when the pairs are.
Quotient(total, count) ==
    LET g == Gcd(total, count) IN <<total \div g, count \div g>>

\* get_stats' calc_stats on one list.
CalcStats(values) ==
    IF values = <<>> THEN [min |-> 0, max |-> 0, avg |-> Quotient(0, 1)]
    ELSE [min |-> SeqMin(values), max |-> SeqMax(values),
          avg |-> Quotient(SeqSum(values), Len(values))]

\* The keys get_stats summarises, in the order of its dict display.
StatKeys == SubSeq(HistKeys, 2, Len(HistKeys))

ErrorNoData == [kind |-> "error", status |-> 404, error |-> "No data available"]

\* get_stats' test not history['timestamps'], altered: never true.
NoDataNever(timestamps) == FALSE

\* get_stats' test not history['timestamps'].
NoData(timestamps) == timestamps = <<>>

\* What get_stats returns when it runs alone on the history h.
GetStatsOf(h) ==
    IF NoData(h["timestamps"]) THEN ErrorNoData
    ELSE [kind |-> "stats",
          body |-> [k \in {StatKeys[i] : i \in 1..Len(StatKeys)} |->
                        CalcStats(h[k])],
          data_points |-> Len(h["timestamps"]),
          time_range_seconds |->
              IF Len(h["timestamps"]) > 1
                THEN h["timestamps"][Len(h["timestamps"])] - h["timestamps"][1]
                ELSE 0]

(***************************************************************************)
(* Device bring-up: detect_gmc500 and detect_emf390                        *)
(* (src/graph_faster.py:74-156).                                           *)
(***************************************************************************)
PORT_500_DEFAULT == "/dev/gmc500"
PORT_390_DEFAULT == "/dev/emf390"
None == "None"

\* max_attempts of both detect functions.
max_attempts == 2

\* What one probe of a port (open, <POWERON>>, <GETVER>>, read, compare)
\* can come to: the expected identity, another answer, or an exception.
ProbeOutcomes == {"match", "mismatch", "raises"}

\* No detect function is running.
NoFrame ==
    [fn |-> "none", attempt |-> 0, stop_try |-> FALSE, port_500 |-> None,
     port_390 |-> None, returned |-> FALSE, result |-> <<>>, probes |-> 0,
     swaps |-> 0]

\* The locals of a detect function at its first line.
Frame(fn, p500, p390) ==
    [NoFrame EXCEPT !.fn = fn, !.port_500 = p500, !.port_390 = p390]

\* detect_gmc500's swap, altered: stop_try_500 is not set.
Swap500KeepsTrying(f) ==
    [f EXCEPT !.port_500 = f.port_390, !.port_390 = f.port_500,
              !.swaps = @ + 1]

\* detect_gmc500: port_500, port_390 = port_390, port_500; stop_try_500 = True
Swap500(f) ==
    [f EXCEPT !.port_500 = f.port_390, !.port_390 = f.port_500,
              !.stop_try = TRUE, !.swaps = @ + 1]

\* detect_emf390: port_390 = "/dev/ttyUSB0"; stop_try_390 = True
Swap390(f) ==
    [f EXCEPT !.port_390 = "/dev/ttyUSB0", !.stop_try = TRUE, !.swaps = @ + 1]

\* return value
Returns(f, value) == [f EXCEPT !.returned = TRUE, !.result = value]

\* One iteration of detect_gmc500's while loop, the probe ending in outcome.
\* On the expected identity, and on a second failure of either kind, the
\* function returns the ports as they are; a first failure swaps them.
DetectGmc500Step(f, outcome) ==
    LET g == [f EXCEPT !.attempt = @ + 1, !.probes = @ + 1] IN
        IF outcome = "match" \/ g.stop_try
          THEN Returns(g, <<g.port_500, g.port_390>>)
          ELSE Swap500(g)

\* One iteration of detect_emf390's while loop.
DetectEmf390Step(f, outcome) ==
    LET g == [f EXCEPT !.attempt = @ + 1, !.probes = @ + 1] IN
        IF outcome = "match" THEN Returns(g, <<g.port_390>>)
        ELSE IF g.stop_try THEN Returns(g, <<None>>)
        ELSE Swap390(g)

\* The value a detect function hands back: that of its return statement,
\* or that of the statement after the loop once attempt reached max_attempts.
DetectResult(f) ==
    IF f.returned THEN f.result
    ELSE IF f.fn = "detect_gmc500" THEN <<f.port_500, f.port_390>>
    ELSE <<None>>

(***************************************************************************)
(* The background readers emf_reader_loop and cpm_reader_loop              *)
(* (src/graph_faster.py:191-422).                                          *)
(***************************************************************************)
Pollers == {"emf", "cpm"}

\* The reader threads.  graph.py starts _emf_reader_loop a second time
\* (src/graph.py:415), as the thread "emf2".
Threads == Pollers \cup {"emf2"}

\* The device connection a reader thread uses: ser_390 for the EMF390
\* readers, ser_500 (ser_500_bg in graph.py) for the GMC-500 reader.
Conn(p) == IF p = "emf2" THEN "emf" ELSE p

\* The commands one iteration of a reader loop sends, in order.
Commands(p) ==
    IF Conn(p) = "emf" THEN <<"GETEMF", "GETEF", "GETRFTOTALDENSITY">>
    ELSE <<"GETCPMH", "GETCPML">>

\* The global a command's reading is stored in.
GlobalOf(cmd) ==
    CASE cmd = "GETEMF" -> "emf_value"
      [] cmd = "GETEF" -> "ef_value"
      [] cmd = "GETRFTOTALDENSITY" -> "rf_value"
      [] cmd = "GETCPMH" -> "cpm_h_value"
      [] cmd = "GETCPML" -> "cpm_l_value"

Globals == {"emf_value", "ef_value", "rf_value", "cpm_h_value", "cpm_l_value"}

\* One lock for both value groups instead of one each.
LockOfShared(p) == "emf_lock"

\* The lock that guards a reader's globals.
LockOf(p) == IF Conn(p) = "emf" THEN "emf_lock" ELSE "cpm_lock"

Locks == {"emf_lock", "cpm_lock"}

max_consecutive_errors == 10
max_reconnect_attempts == 3

\* The state of the serial link to a device, which decides what a call on
\* the port comes to:
\*   "ok"        the device answers every command with a well-formed reading;
\*   "garbage"   it answers, with responses that do not decode;
\*   "timeout"   writes time out (SerialTimeoutException: 'Write timeout');
\*   "ioerror"   reads and writes raise SerialException with an
\*               'Input/output error' / 'write failed' text, the port can
\*               be reopened;
\*   "unplugged" as "ioerror", and serial.Serial(port) raises too;
\*   "late"      the device answers every command with a well-formed
\*               reading, after the read for the command has given up.
Links == {"ok", "garbage", "timeout", "ioerror", "unplugged", "late"}

\* Exceptions, by what the loops' except clauses tell apart: a
\* SerialException whose text names an I/O error, another SerialException,
\* and an exception of another class.
Exceptions == {"io", "serial", "other"}
NoException == "none"

\* A token of a text response: a number float() accepts, or not.
Num(v) == [num |-> TRUE, v |-> v]
Word == [num |-> FALSE, v |-> 0]

\* The text responses of the EMF390 as _read_response_bg returns them,
\* split at the blanks.  A well-formed answer to <GETEMF>> and <GETEF>>
\* carries its reading as the third token, one to <GETRFTOTALDENSITY>> as
\* the first.
WellFormed(cmd, v) ==
    CASE cmd \in {"GETEMF", "GETEF"} -> <<Word, Word, Num(v), Word>>
      [] cmd = "GETRFTOTALDENSITY" -> <<Num(v), Word>>
      [] OTHER -> <<0, 0, v \div 256, v % 256>>

\* Responses that do not decode: for the EMF390 the empty string, a text
\* without the token index, a text whose token is no number; for the
\* GMC-500 fewer than the four bytes asked for.
MalformedResponses(cmd) ==
    CASE cmd \in {"GETEMF", "GETEF"} ->
             {<<>>, <<Word, Word>>, <<Word, Word, Word>>}
      [] cmd = "GETRFTOTALDENSITY" -> {<<>>, <<Word, Word>>}
      [] OTHER -> {<<>>, <<0, 7>>, <<0, 0, 7>>}

\* No command: nothing has been read, or the read came back empty.
NoCommand == "none"

\* int.from_bytes(resp, "big")
RECURSIVE FromBytesBig(_)
FromBytesBig(resp) ==
    IF resp = <<>> THEN 0
    ELSE 256 * FromBytesBig(SubSeq(resp, 1, Len(resp) - 1)) + resp[Len(resp)]

\* The outcome of decoding: no value, or the value to store.
NoValue == [ok |-> FALSE, v |-> 0]
Value(v) == [ok |-> TRUE, v |-> v]

\* float(r.split(' ')[i]) inside its try block (i counted from 0).
FloatOfToken(r, i) ==
    IF Len(r) < i + 1 THEN NoValue
    ELSE IF ~r[i + 1].num THEN NoValue
    ELSE Value(r[i + 1].v)

\* A decode that reports a failed decode as the reading 0.
DecodeZeroOnError(cmd, r) ==
    CASE cmd \in {"GETEMF", "GETEF"} ->
             IF FloatOfToken(r, 2).ok THEN FloatOfToken(r, 2) ELSE Value(0)
      [] cmd = "GETRFTOTALDENSITY" ->
             IF FloatOfToken(r, 0).ok THEN FloatOfToken(r, 0) ELSE Value(0)
      [] OTHER -> IF Len(r) = 4 THEN Value(FromBytesBig(r)) ELSE Value(0)

\* What a loop makes of the response r to command cmd: `if r:` and the
\* float of the token for the EMF390, `if len(resp) == 4:` and
\* int.from_bytes for the GMC-500.
Decode(cmd, r) ==
    CASE cmd \in {"GETEMF", "GETEF"} ->
             IF r = <<>> THEN NoValue ELSE FloatOfToken(r, 2)
      [] cmd = "GETRFTOTALDENSITY" ->
             IF r = <<>> THEN NoValue ELSE FloatOfToken(r, 0)
      [] OTHER -> IF Len(r) = 4 THEN Value(FromBytesBig(r)) ELSE NoValue

\* The except clause that catches exception exc raised at a point of the
\* loop body: "pass" for the try blocks around reset_input_buffer, the
\* decode, ser.close() and the reopen, otherwise the loop's own clauses.
\* "escapes" would end the thread.
\* graph_faster.py has the clauses except serial.SerialException and except
\* Exception around the loop body, graph.py the one clause except Exception.
CaughtBySerialOnly(script, where, exc) ==
    IF where \in {"reset", "decode", "close", "reopen"} THEN "pass"
    ELSE IF script = "graph" THEN "except_all"
    ELSE IF exc \in {"io", "serial"} THEN "except_serial"
    ELSE "escapes"

CaughtBy(script, where, exc) ==
    IF where \in {"reset", "decode", "close", "reopen"} THEN "pass"
    ELSE IF script = "graph" THEN "except_all"
    ELSE IF exc \in {"io", "serial"} THEN "except_serial"
    ELSE "except_other"

\* The reconnect condition with the test of the attempt counter left out.
MayReconnectAlways(attempts, port) == port # None

\* reconnect_attempts <= max_reconnect_attempts and port
MayReconnect(attempts, port) ==
    attempts <= max_reconnect_attempts /\ port # None

\* What ser.write(command) raises, if anything, on the port object ser
\* over the link: on None the attribute lookup fails, a closed port raises
\* PortNotOpenError (a SerialException).
WriteRaises(port, link) ==
    IF port = None THEN "other"
    ELSE IF port = "closed" THEN "serial"
    ELSE IF link = "timeout" THEN "serial"
    ELSE IF link \in {"ioerror", "unplugged"} THEN "io"
    ELSE NoException

(***************************************************************************)
(* MainWindow.update_gui (src/graph_faster.py:595-667): the GPS read.      *)
(***************************************************************************)
\* The factors of the unit conversions, scaled to integers: altitude is
\* kept in 1e-5 ft (metres * 3.28084), velocity in 1e-3 mph (m/s * 2.237).
FEET_PER_METRE_E5 == 328084
MPH_PER_MPS_E3 == 2237

\* What gpsd answers on one tick: how gpsd.get_current() ends ("ok", the
\* SIGALRM "timeout", or an "error" it raises), and for a packet its mode,
\* the call on it that raises ("none", "position" or "altitude"), and what
\* position(), altitude() and hspeed give otherwise.  An optional number is
\* <<>> for None and <<n>> for n.
GpsAnswer(get, m, raises, position, altitude, hspeed) ==
    [get |-> get, mode |-> m, raises |-> raises, position |-> position,
     altitude |-> altitude, hspeed |-> hspeed]

\* No answer: gpsd was not asked.
NoAnswer == GpsAnswer("none", 0, "none", <<0, 0>>, <<>>, <<>>)

\* The answers that are tried: the read times out; it raises; the packet
\* has no fix (mode 0 or 1); position() raises; a fix whose altitude()
\* raises (a 2D fix has no altitude); fixes without and with altitude and
\* speed.
GpsAnswers ==
    { GpsAnswer("timeout", 0, "none", <<0, 0>>, <<>>, <<>>),
      GpsAnswer("error", 0, "none", <<0, 0>>, <<>>, <<>>),
      GpsAnswer("ok", 0, "none", <<0, 0>>, <<>>, <<>>),
      GpsAnswer("ok", 1, "none", <<47, 8>>, <<>>, <<>>),
      GpsAnswer("ok", 2, "position", <<47, 8>>, <<>>, <<>>),
      GpsAnswer("ok", 2, "altitude", <<47, 8>>, <<>>, <<3>>),
      GpsAnswer("ok", 2, "none", <<47, 8>>, <<>>, <<>>),
      GpsAnswer("ok", 3, "none", <<47, 8>>, <<400>>, <<3>>) }

\* x or 0.0
OrZero(x) == IF x = <<>> THEN 0 ELSE x[1]

\* The four locals lat, lon, alt, vel.
Fix(lat, lon, alt, vel) == [lat |-> lat, lon |-> lon, alt |-> alt, vel |-> vel]

\* lat = lon = alt = vel = 0.0
ZeroFix == Fix(0, 0, 0, 0)

\* The locals after the try block of update_gui, which starts from ZeroFix:
\* an exception leaves the block at the statement that raised, with the
\* assignments made before it in place.
GpsTry(a) ==
    IF a.get # "ok" THEN ZeroFix
    ELSE IF a.mode >= 2
      THEN IF a.raises = "position" THEN ZeroFix
           ELSE IF a.raises = "altitude"
             THEN Fix(a.position[1], a.position[2], 0, 0)
           ELSE Fix(a.position[1], a.position[2],
                    OrZero(a.altitude) * FEET_PER_METRE_E5,
                    OrZero(a.hspeed) * MPH_PER_MPS_E3)
    ELSE ZeroFix

\* The ten arguments update_gui passes to update_shared_data.
GuiSample(ts, v, f) ==
    [timestamp |-> ts,
     cpm_h     |-> v["cpm_h_value"], cpm_l     |-> v["cpm_l_value"],
     emf       |-> v["emf_value"],   rf        |-> v["rf_value"],
     ef        |-> v["ef_value"],    altitude  |-> f.alt,
     latitude  |-> f.lat,            longitude |-> f.lon,
     velocity  |-> f.vel]

(***************************************************************************)
(* _read_response_bg (src/graph_faster.py:200-227).                        *)
(***************************************************************************)
\* Time is counted in sleeps of the polling loops: the first-byte deadline
\* (first_deadline_s = 0.25 against sleeps of 0.002), the gap window opened
\* by the first bytes (gap_s = 0.02 against sleeps of 0.001) and the window
\* opened by later bytes (0.01) keep their order, not their size.
first_deadline_s == 3
gap_s == 2
gap_next_s == 1

\* The chunks the device may send in answer to one command.
MaxChunks == 3

\* What a chunk of bytes holds: text, white space only (the line end), or
\* bytes that are no UTF-8.
ChunkKinds == {"text", "space", "invalid"}

RECURSIVE ChunkSeqs(_)
ChunkSeqs(n) ==
    IF n = 0 THEN {<<>>}
    ELSE ChunkSeqs(n - 1) \cup
         {Append(s, c) : s \in {x \in ChunkSeqs(n - 1) : Len(x) = n - 1},
                         c \in ChunkKinds}

\* str.strip(): leading and trailing white space removed.
RECURSIVE LStrip(_)
LStrip(s) ==
    IF s # <<>> /\ Head(s) = "space" THEN LStrip(Tail(s)) ELSE s

RECURSIVE RStrip(_)
RStrip(s) ==
    IF s # <<>> /\ s[Len(s)] = "space" THEN RStrip(SubSeq(s, 1, Len(s) - 1))
    ELSE s

\* buf.decode("utf-8", errors="ignore").strip()
DecodeStrip(buf) ==
    LStrip(RStrip(SelectSeq(buf, LAMBDA c : c # "invalid")))

\* The locals of a call that has just begun (deadline set, buf empty), the
\* clock t, the bytes waiting in the port's input buffer, the chunks the
\* device has still to send, whether the port raises, and for the
\* properties whether the coalescing phase was entered and when bytes were
\* last appended.
ReadCall(chunks) ==
    [pc |-> "first_test", buf |-> <<>>, t |-> 0, deadline |-> first_deadline_s,
     gap_dead |-> 0, waiting |-> <<>>, todo |-> chunks, broken |-> FALSE,
     result |-> <<>>, coalesced |-> FALSE, last |-> 0]

NoRead == [ReadCall(<<>>) EXCEPT !.pc = "none"]

(***************************************************************************)
(* The GUI ring buffers (src/graph_faster.py:426-444, 577-593, 634-643).   *)
(***************************************************************************)
\* UPDATE_MS, the seconds of a minute and the least buffer length, scaled
\* down (100, 60 and 200 in the source) so that a buffer fills within a
\* few ticks: a window of one minute is below the least length, those of
\* two and three minutes are above it.
UPDATE_MS == 500
seconds_per_minute == 1
min_deque_len == 3
MaxBufTicks == 7

\* The entries of the window chooser, as int(label) reads them ("1", "5",
\* "10", "15", "30", "60" in the source).
WindowChoices == {1, 2, 3}

\* TIME_WINDOW_MIN = 1
TIME_WINDOW_MIN_default == 1

\* The values the shared sensor globals have on a tick.
BufSamples == {0, 1}

\* The buffers, in the order make_buffers returns them.
Buffers == {"t_buf", "cpmh_buf", "cpml_buf", "emf_buf", "rf_buf", "ef_buf",
            "vel_buf", "alt_buf"}

\* max(a, b)
Max(a, b) == IF a >= b THEN a ELSE b

\* approx_rate = max(1, int(1000 / refresh_ms))
approx_rate(refresh_ms) == Max(1, 1000 \div refresh_ms)

\* return max(200, minutes * 60 * approx_rate)
deque_len_for_window(minutes) ==
    Max(min_deque_len, minutes * seconds_per_minute * approx_rate(UPDATE_MS))

\* deque(maxlen=n)
EmptyDeque(n) == [items |-> <<>>, maxlen |-> n]

\* A full deque that refuses the new entry instead of dropping its oldest.
DequeAppendKeepsOldest(d, x) ==
    IF Len(d.items) >= d.maxlen THEN d
    ELSE [d EXCEPT !.items = Append(@, x)]

\* d.append(x): a deque at its maxlen discards the entry at the other end.
DequeAppend(d, x) ==
    IF d.maxlen = 0 THEN d
    ELSE IF Len(d.items) >= d.maxlen
      THEN [d EXCEPT !.items = Append(Tail(@), x)]
    ELSE [d EXCEPT !.items = Append(@, x)]

\* deque(iterable, maxlen=n): the entries are appended one after the other.
RECURSIVE DequeExtend(_, _)
DequeExtend(d, iterable) ==
    IF iterable = <<>> THEN d
    ELSE DequeExtend(DequeAppend(d, Head(iterable)), Tail(iterable))

Deque(iterable, n) == DequeExtend(EmptyDeque(n), iterable)

\* make_buffers(minutes): eight empty deques of one maxlen.
make_buffers(minutes) ==
    [b \in Buffers |-> EmptyDeque(deque_len_for_window(minutes))]

\* What update_gui appends to a buffer: now to t_buf, the sensor values to
\* the five sensor buffers, vel and alt (0 without gpsd) to the other two.
BufEntry(b, t, v) ==
    IF b = "t_buf" THEN t
    ELSE IF b \in {"vel_buf", "alt_buf"} THEN 0
    ELSE v

\* The module's buffers after the import, the window showing.
BuffersAtStart ==
    [on |-> TRUE, bufs |-> make_buffers(TIME_WINDOW_MIN_default),
     TIME_WINDOW_MIN |-> TIME_WINDOW_MIN_default, n |-> 0, last |-> "none"]

NoBuffers == [BuffersAtStart EXCEPT !.on = FALSE]

(***************************************************************************)
(* BOSS_SENSOR_SCRIPT.py: sensor_loop and the three reads.                 *)
(***************************************************************************)
MaxCycles == 2
MaxInterrupts == 2

\* The devices, in the order a cycle reads them.
Devices == <<"gps", "geiger", "emf">>

\* What gpsd gives on a read: a fix, or an exception of get_current,
\* position(), altitude() or of the arithmetic on a None.
GpsOutcomes == {"fix", "error"}

\* lat, lon, alt, vel of the fix that is tried.
GpsFix == <<47, 8, 3, 2>>

\* read_gps_data: try: ... return lat, lon, alt, vel / except: return 0, 0, 0, 0
read_gps_data(a) == IF a = "fix" THEN GpsFix ELSE <<0, 0, 0, 0>>

\* One call of read_geiger_data or read_emf_data on its device: a call on
\* the port raises (serial.Serial, write, read), or the two reads return
\* what the device sent within the timeout.
SerialOutcome(raises, first, second) ==
    [raises |-> raises, first |-> first, second |-> second]

GeigerOutcomes ==
    {SerialOutcome(TRUE, <<>>, <<>>)} \cup
    {SerialOutcome(FALSE, h, l) :
        h \in {WellFormed("GETCPMH", 1)} \cup MalformedResponses("GETCPMH"),
        l \in {WellFormed("GETCPML", 1)} \cup MalformedResponses("GETCPML")}

EmfOutcomes ==
    {SerialOutcome(TRUE, <<>>, <<>>)} \cup
    {SerialOutcome(FALSE, e, r) :
        e \in {WellFormed("GETEMF", 1)} \cup MalformedResponses("GETEMF"),
        r \in {WellFormed("GETRFTOTALDENSITY", 1)}
               \cup MalformedResponses("GETRFTOTALDENSITY")}

\* read_geiger_data: cpm_h = float(int.from_bytes(ser.read(4), 'big')),
\* the same for cpm_l; except Exception: return 0, 0.  The length of a
\* response is not looked at.
read_geiger_data(o) ==
    IF o.raises THEN <<0, 0>>
    ELSE <<FromBytesBig(o.first), FromBytesBig(o.second)>>

\* read_emf_data: emf = float(response.split(" ")[2]),
\* rf = float(response.split(" ")[0]); except Exception: return 0.0, 0.0.
read_emf_data(o) ==
    IF o.raises \/ ~FloatOfToken(o.first, 2).ok \/ ~FloatOfToken(o.second, 0).ok
      THEN <<0, 0>>
    ELSE <<FloatOfToken(o.first, 2).v, FloatOfToken(o.second, 0).v>>

\* The read of a device failed: a call raised, or a response was not the
\* whole answer to its command.
GeigerFailed(o) == o.raises \/ Len(o.first) # 4 \/ Len(o.second) # 4
EmfFailed(o) ==
    \/ o.raises
    \/ o.first \in MalformedResponses("GETEMF")
    \/ o.second \in MalformedResponses("GETRFTOTALDENSITY")

\* The payload publish_to_clair builds from the locals of the cycle.
Payload(gps, geiger, emf) == [gps |-> gps, geiger |-> geiger, emf |-> emf]
NoPayload == Payload(<<>>, <<>>, <<>>)

\* The script, where sensor_loop is, with its locals, and the history of
\* the run: the reads made and the devices that failed in this cycle, the
\* payloads published in it, how connect_mqtt ended, the SIGINTs so far.
Script(pc) ==
    [pc |-> pc, cycle |-> 0, gps |-> <<0, 0, 0, 0>>, geiger |-> <<0, 0>>,
     emf |-> <<0, 0>>, reads |-> <<>>, failed |-> {}, sent |-> 0,
     outbox |-> NoPayload, mqtt |-> "none", sigints |-> 0]

\* BOSS_SENSOR_SCRIPT.py is not running.
NoScript == Script("none")

(***************************************************************************)
(* State.                                                                  *)
(***************************************************************************)
VARIABLES
    active,      \* the thread population of this run (fixed by Init)
    now,         \* time.time(), in seconds
    ncalls,      \* update_shared_data calls made so far
    current,     \* shared_data['current']
    hist,        \* shared_data['history']: the list bound to each key
    data_lock,   \* the thread holding data_lock, or NoThread
    ws_lock,     \* the thread holding ws_lock, or NoThread
    ws_clients,  \* the set ws_clients
    \* update_shared_data / broadcast_to_websockets, per calling thread
    wpc,         \* where the thread is
    wargs,       \* the call's ten arguments
    wkey,        \* index into HistKeys of the append / trim loop
    wdata,       \* broadcast_to_websockets' argument data
    wrem,        \* clients the for loop has not reached yet
    wcur,        \* the client the for loop is at
    wdisc,       \* the local set disconnected
    \* history of the run (not program state)
    log,         \* the arguments of the writes, in the order applied
    snaps,       \* shared_data['history'] at each release of data_lock by a writer
    wn,          \* per writer: the position of its write in log
    due,         \* per subscriber: the writes whose broadcast began with it in ws_clients
    \* stream_websocket, per subscriber
    spc,         \* where the handler thread is
    mode,        \* the connection: "ok", "slow" (send blocks) or "dead" (send raises)
    inbox,       \* the messages the client has received, in order
    \* get_current / get_history / get_stats, per REST request thread
    rpc,         \* where the thread is
    rargs,       \* the endpoint called and its query parameters
    rhist,       \* the local dict history: per key, the list object it refers to
    rcutoff,     \* get_history's cutoff_time
    rstart,      \* get_history's start_idx
    rkey,        \* index into HistKeys of the comprehension / serialisation loop
    rphase,      \* get_stats: the expression being evaluated
    racc,        \* the dict being built
    resp,        \* the response of the last finished request
    rfrom,       \* history of the run: Len(snaps) when the request began
    rn,          \* history of the run: Len(log) when get_current read the store
    \* device bring-up at import of graph_faster (src/graph_faster.py:74-159)
    dpc,         \* where the module's top level is
    det,         \* the locals of the detect function that is running
    port_500,    \* the global port_500
    port_390,    \* the global port_390
    detected,    \* history of the run: the devices that answered with their identity
    \* the background readers (src/graph_faster.py:191-422), per reader
    sensor,      \* the globals emf_value, ef_value, rf_value, cpm_h_value, cpm_l_value
    locks,       \* emf_lock and cpm_lock: the thread holding each, or NoThread
    ser,         \* the global ser_390 / ser_500: "open", "closed" or None
    link,        \* the state of the serial link to the device
    nlink,       \* the changes of state the link has made so far
    ppc,         \* where the reader thread is
    pcmd,        \* the index of the command the loop body is at
    pexc,        \* the exception being handled
    presp,       \* the local r / resp
    pv,          \* the local v
    consecutive_errors,
    reconnect_attempts,
    \* history of the run (not program state)
    badrun,      \* responses in a row that did not decode (up to max_consecutive_errors)
    reopens,     \* reopen attempts since the last response that decoded (up to 2)
    late,        \* per connection: the command whose answer is still to come
    pfrom,       \* the command that the response in r / resp answers
    \* MainWindow.update_gui (src/graph_faster.py:595-667), the GUI thread
    gpc,         \* where the thread is
    nticks,      \* the timer ticks so far
    fix,         \* the locals lat, lon, alt, vel
    vals,        \* the locals cpm_h, cpm_l, emf, ef, rf, by the global read
    answer,      \* history of the run: what gpsd answered on this tick
    \* functions run on their own, on inputs drawn by the initial state
    hq,          \* get_history: the store, the clock and the query parameters
    hres,        \* get_history: the response, once it has returned
    rr,          \* _read_response_bg: its locals, the clock and the port
    gb,          \* the GUI ring buffers, TIME_WINDOW_MIN and the ticks so far
    ms           \* BOSS_SENSOR_SCRIPT.py: the script and its broker

storeVars  == <<current, hist, data_lock>>
writerVars == <<wpc, wargs, wkey, wdata, wrem, wcur, wdisc, wn>>
ghostVars  == <<log, snaps, due>>
subVars    == <<spc, mode, inbox>>
readerVars == <<rpc, rargs, rhist, rcutoff, rstart, rkey, rphase, racc, resp,
                rfrom, rn>>
detVars == <<dpc, det, port_500, port_390, detected>>
pollerLocals == <<pcmd, pexc, presp, pv>>
pollerCounters == <<consecutive_errors, reconnect_attempts>>
lateVars == <<late, pfrom>>
pollerGhost == <<badrun, reopens, lateVars>>
pollVars == <<sensor, locks, ser, link, nlink, ppc, pollerLocals, pollerCounters,
              pollerGhost>>
guiVars == <<gpc, nticks, fix, vals, answer>>
unitVars == <<hq, hres, rr, gb, ms>>
hwVars == <<detVars, pollVars, guiVars, unitVars>>
vars == <<active, now, ncalls, storeVars, ws_lock, ws_clients, writerVars,
          ghostVars, subVars, readerVars, hwVars>>

ProgramInit ==
    /\ now = 0
    /\ ncalls = 0
    /\ current = InitCurrent
    /\ hist = InitHistory
    /\ data_lock = NoThread
    /\ ws_lock = NoThread
    /\ ws_clients = {}
    /\ wpc = [w \in Writers |-> "idle"]
    /\ wargs = [w \in Writers |-> NoSample]
    /\ wkey = [w \in Writers |-> 0]
    /\ wdata = [w \in Writers |-> InitCurrent]
    /\ wrem = [w \in Writers |-> {}]
    /\ wcur = [w \in Writers |-> NoThread]
    /\ wdisc = [w \in Writers |-> {}]
    /\ log = <<>>
    /\ snaps = <<InitHistory>>
    /\ wn = [w \in Writers |-> 0]
    /\ due = [s \in Subs |-> {}]
    /\ spc = [s \in Subs |-> "idle"]
    /\ mode = [s \in Subs |-> "ok"]
    /\ inbox = [s \in Subs |-> <<>>]
    /\ rpc = [r \in Readers |-> "idle"]
    /\ rargs = [r \in Readers |-> NoArgs]
    /\ rhist = [r \in Readers |-> NoCopy]
    /\ rcutoff = [r \in Readers |-> 0]
    /\ rstart = [r \in Readers |-> 0]
    /\ rkey = [r \in Readers |-> 0]
    /\ rphase = [r \in Readers |-> "none"]
    /\ racc = [r \in Readers |-> NoDict]
    /\ resp = [r \in Readers |-> NoResponse]
    /\ rfrom = [r \in Readers |-> 1]
    /\ rn = [r \in Readers |-> 0]
    /\ dpc = "import"
    /\ det = NoFrame
    /\ port_500 = IF "cpm" \in active.pollers /\ ~active.detect
                     THEN PORT_500_DEFAULT ELSE None
    /\ port_390 = IF "emf" \in active.pollers /\ ~active.detect
                     THEN PORT_390_DEFAULT ELSE None
    /\ detected = [p \in Pollers |-> p \in active.pollers /\ ~active.detect]
    /\ sensor = [g \in Globals |-> 0]
    /\ locks = [l \in Locks |-> NoThread]
    /\ ser = [p \in Pollers |-> IF p \in active.pollers /\ ~active.detect
                                   THEN "open" ELSE None]
    /\ link = [p \in Pollers |-> "ok"]
    /\ nlink = [p \in Pollers |-> 0]
    /\ ppc = [p \in Threads |-> "start"]
    /\ pcmd = [p \in Threads |-> 1]
    /\ pexc = [p \in Threads |-> NoException]
    /\ presp = [p \in Threads |-> <<>>]
    /\ pv = [p \in Threads |-> 0]
    /\ consecutive_errors = [p \in Threads |-> 0]
    /\ reconnect_attempts = [p \in Threads |-> 0]
    /\ badrun = [p \in Threads |-> 0]
    /\ reopens = [p \in Threads |-> 0]
    /\ late = [p \in Pollers |-> <<>>]
    /\ pfrom = [p \in Threads |-> NoCommand]
    /\ gpc = "idle"
    /\ nticks = 0
    /\ fix = ZeroFix
    /\ vals = [g \in Globals |-> 0]
    /\ answer = NoAnswer

\* No function is run on its own.
UnitIdle ==
    /\ hq = NoQuery
    /\ hres = NoResponse
    /\ rr = NoRead
    /\ gb = NoBuffers
    /\ ms = NoScript

Init ==
    /\ active \in Configs
    /\ ProgramInit
    /\ UnitIdle

(***************************************************************************)
(* The wall clock.                                                         *)
(***************************************************************************)
Tick ==
    /\ now < 60 * active.ticks
    /\ now' = now + 60
    /\ UNCHANGED <<hwVars, active, ncalls, storeVars, ws_lock, ws_clients, writerVars,
                   ghostVars, subVars, readerVars>>

(***************************************************************************)
(* update_shared_data (src/api_server.py:50-84).                           *)
(***************************************************************************)
\* The caller (MainWindow.update_gui) takes now = time.time() and its
\* readings and calls update_shared_data; the thread then waits for data_lock.
WCall(w) ==
    /\ w \in active.writers
    /\ wpc[w] = "idle"
    /\ ncalls < active.calls
    /\ active.overlap \/ \A r \in Readers : rpc[r] = "idle"
    /\ ncalls' = ncalls + 1
    /\ wargs' = [wargs EXCEPT ![w] = Sample(now, ncalls + 1)]
    /\ wpc' = [wpc EXCEPT ![w] = "lock"]
    /\ UNCHANGED <<hwVars, active, now, storeVars, ws_lock, ws_clients, wkey, wdata,
                   wrem, wcur, wdisc, wn, ghostVars, subVars, readerVars>>

\* A with block that does not wait for the holder of data_lock.
WEnterWithoutWaiting(w) ==
    /\ wpc[w] = "lock"
    /\ data_lock' = w
    /\ wpc' = [wpc EXCEPT ![w] = "set_current"]
    /\ UNCHANGED <<hwVars, active, now, ncalls, current, hist, ws_lock, ws_clients,
                   wargs, wkey, wdata, wrem, wcur, wdisc, wn, ghostVars, subVars, readerVars>>

\* with data_lock:
WAcquire(w) ==
    /\ wpc[w] = "lock"
    /\ data_lock = NoThread
    /\ data_lock' = w
    /\ wpc' = [wpc EXCEPT ![w] = "set_current"]
    /\ UNCHANGED <<hwVars, active, now, ncalls, current, hist, ws_lock, ws_clients,
                   wargs, wkey, wdata, wrem, wcur, wdisc, wn, ghostVars, subVars, readerVars>>

\* shared_data['current'] = {...}
WSetCurrent(w) ==
    /\ wpc[w] = "set_current"
    /\ current' = MakeCurrent(wargs[w])
    /\ log' = Append(log, wargs[w])
    /\ wn' = [wn EXCEPT ![w] = Len(log) + 1]
    /\ wkey' = [wkey EXCEPT ![w] = 1]
    /\ wpc' = [wpc EXCEPT ![w] = "append"]
    /\ UNCHANGED <<hwVars, active, now, ncalls, hist, data_lock, ws_lock, ws_clients,
                   wargs, wdata, wrem, wcur, wdisc, snaps, due, subVars, readerVars>>

\* shared_data['history'][key].append(value), one key per step.
WAppend(w) ==
    /\ wpc[w] = "append"
    /\ LET k == HistKeys[wkey[w]] IN
           hist' = [hist EXCEPT ![k] = Append(@, HistValue(wargs[w], k))]
    /\ IF wkey[w] < Len(HistKeys)
         THEN /\ wkey' = [wkey EXCEPT ![w] = @ + 1]
              /\ wpc' = wpc
         ELSE /\ wkey' = [wkey EXCEPT ![w] = 1]
              /\ wpc' = [wpc EXCEPT ![w] = "trim"]
    /\ UNCHANGED <<hwVars, active, now, ncalls, current, data_lock, ws_lock,
                   ws_clients, wargs, wdata, wrem, wcur, wdisc, wn, ghostVars, subVars, readerVars>>

\* for key in shared_data['history']: if the list is longer than max_points,
\* the key is bound to a new list holding its last max_points entries, one
\* key per step.  A dict copied from shared_data['history'] before that keeps
\* the old list object.
WTrim(w) ==
    /\ wpc[w] = "trim"
    /\ LET k == HistKeys[wkey[w]] IN
           /\ hist' = [hist EXCEPT ![k] = TrimList(@)]
           /\ rhist' = IF Len(hist[k]) > max_points
                          THEN [r \in Readers |-> Detach(rhist[r], k, hist[k])]
                          ELSE rhist
    /\ IF wkey[w] < Len(HistKeys)
         THEN /\ wkey' = [wkey EXCEPT ![w] = @ + 1]
              /\ wpc' = wpc
         ELSE /\ wkey' = [wkey EXCEPT ![w] = 0]
              /\ wpc' = [wpc EXCEPT ![w] = "unlock"]
    /\ UNCHANGED <<hwVars, active, now, ncalls, current, data_lock, ws_lock,
                   ws_clients, wargs, wdata, wrem, wcur, wdisc, wn, ghostVars,
                   subVars, rpc, rargs, rcutoff, rstart, rkey, rphase, racc,
                   resp, rfrom, rn>>

\* The broadcast called inside the with block: data_lock stays held.
WBroadcastInsideLock(w) ==
    /\ wpc[w] = "unlock"
    /\ snaps' = Append(snaps, hist)
    /\ wpc' = [wpc EXCEPT ![w] = "read_current"]
    /\ UNCHANGED <<hwVars, active, now, ncalls, storeVars, ws_lock, ws_clients,
                   wargs, wkey, wdata, wrem, wcur, wdisc, wn, log, due, subVars, readerVars>>

\* The end of the with block releases data_lock.
WRelease(w) ==
    /\ wpc[w] = "unlock"
    /\ data_lock' = NoThread
    /\ snaps' = Append(snaps, hist)
    /\ wpc' = [wpc EXCEPT ![w] = "read_current"]
    /\ UNCHANGED <<hwVars, active, now, ncalls, current, hist, ws_lock, ws_clients,
                   wargs, wkey, wdata, wrem, wcur, wdisc, wn, log, due, subVars, readerVars>>

\* broadcast_to_websockets(shared_data['current']): the argument is read
\* after data_lock is released.
WReadCurrent(w) ==
    /\ wpc[w] = "read_current"
    /\ wdata' = [wdata EXCEPT ![w] = current]
    /\ wpc' = [wpc EXCEPT ![w] = "ws_lock"]
    /\ UNCHANGED <<hwVars, active, now, ncalls, storeVars, ws_lock, ws_clients, wargs,
                   wkey, wrem, wcur, wdisc, wn, ghostVars, subVars, readerVars>>

(***************************************************************************)
(* broadcast_to_websockets (src/api_server.py:87-98), run by the thread    *)
(* that called update_shared_data.                                         *)
(***************************************************************************)
\* A message as the client receives it: the JSON object, with the path that
\* sent it and the write it belongs to (n) kept beside it for the properties.
Message(kind, n, data) == [kind |-> kind, n |-> n, data |-> data]

\* ws_clients.difference_update(disconnected), altered: nothing is removed.
DifferenceUpdateKeepsAll(clients, disconnected) == clients

\* ws_clients.difference_update(disconnected).
DifferenceUpdate(clients, disconnected) == clients \ disconnected

\* with ws_lock: disconnected = set(); the for loop starts over ws_clients.
WBcastAcquire(w) ==
    /\ wpc[w] = "ws_lock"
    /\ ws_lock = NoThread
    /\ ws_lock' = w
    /\ wdisc' = [wdisc EXCEPT ![w] = {}]
    /\ wrem' = [wrem EXCEPT ![w] = ws_clients]
    /\ due' = [s \in Subs |-> IF s \in ws_clients THEN due[s] \cup {wn[w]}
                              ELSE due[s]]
    /\ wpc' = [wpc EXCEPT ![w] = "loop"]
    /\ UNCHANGED <<hwVars, active, now, ncalls, storeVars, ws_clients, wargs, wkey,
                   wdata, wcur, wn, log, snaps, subVars, readerVars>>

\* for ws in ws_clients: the set's iteration order is arbitrary.
WBcastNext(w) ==
    /\ wpc[w] = "loop"
    /\ \/ /\ wrem[w] # {}
          /\ \E ws \in wrem[w] :
                /\ wcur' = [wcur EXCEPT ![w] = ws]
                /\ wrem' = [wrem EXCEPT ![w] = @ \ {ws}]
          /\ wpc' = [wpc EXCEPT ![w] = "send"]
       \/ /\ wrem[w] = {}
          /\ wcur' = [wcur EXCEPT ![w] = NoThread]
          /\ wrem' = wrem
          /\ wpc' = [wpc EXCEPT ![w] = "cleanup"]
    /\ UNCHANGED <<hwVars, active, now, ncalls, storeVars, ws_lock, ws_clients, wargs,
                   wkey, wdata, wdisc, wn, ghostVars, subVars, readerVars>>

\* try: ws.send(json.dumps(data)) / except Exception: disconnected.add(ws).
\* The send is synchronous: it returns when the message is handed over, it
\* raises on a dead connection, and on a slow one it does not return.
WBcastSend(w) ==
    /\ wpc[w] = "send"
    /\ \/ /\ mode[wcur[w]] = "ok"
          /\ inbox' = [inbox EXCEPT ![wcur[w]] =
                           Append(@, Message("bcast", wn[w], wdata[w]))]
          /\ wdisc' = wdisc
       \/ /\ mode[wcur[w]] = "dead"
          /\ wdisc' = [wdisc EXCEPT ![w] = @ \cup {wcur[w]}]
          /\ inbox' = inbox
    /\ wpc' = [wpc EXCEPT ![w] = "loop"]
    /\ UNCHANGED <<hwVars, active, now, ncalls, storeVars, ws_lock, ws_clients, wargs,
                   wkey, wdata, wrem, wcur, wn, ghostVars, spc, mode, readerVars>>

\* ws_clients.difference_update(disconnected); the with block ends and the
\* call returns, which ends the life of its arguments and locals.
WBcastEnd(w) ==
    /\ wpc[w] = "cleanup"
    /\ ws_clients' = DifferenceUpdate(ws_clients, wdisc[w])
    /\ ws_lock' = NoThread
    /\ wpc' = [wpc EXCEPT ![w] = "idle"]
    /\ wargs' = [wargs EXCEPT ![w] = NoSample]
    /\ wdata' = [wdata EXCEPT ![w] = InitCurrent]
    /\ wdisc' = [wdisc EXCEPT ![w] = {}]
    /\ wn' = [wn EXCEPT ![w] = 0]
    /\ UNCHANGED <<hwVars, active, now, ncalls, storeVars, wkey, wrem, wcur,
                   ghostVars, subVars, readerVars>>

(***************************************************************************)
(* stream_websocket (src/api_server.py:191-215), one handler thread per    *)
(* client, and the client's connection.                                    *)
(***************************************************************************)
\* A client connects: flask_sock starts the handler.
SConnect(s) ==
    /\ s \in active.subs
    /\ spc[s] = "idle"
    /\ spc' = [spc EXCEPT ![s] = "add_lock"]
    /\ UNCHANGED <<hwVars, active, now, ncalls, storeVars, ws_lock, ws_clients,
                   writerVars, ghostVars, mode, inbox, readerVars>>

\* with ws_lock:
SAddAcquire(s) ==
    /\ spc[s] = "add_lock"
    /\ ws_lock = NoThread
    /\ ws_lock' = s
    /\ spc' = [spc EXCEPT ![s] = "add"]
    /\ UNCHANGED <<hwVars, active, now, ncalls, storeVars, ws_clients, writerVars,
                   ghostVars, mode, inbox, readerVars>>

\* ws_clients.add(ws); the with block ends.
SAdd(s) ==
    /\ spc[s] = "add"
    /\ ws_clients' = ws_clients \cup {s}
    /\ ws_lock' = NoThread
    /\ spc' = [spc EXCEPT ![s] = "init_lock"]
    /\ UNCHANGED <<hwVars, active, now, ncalls, storeVars, writerVars, ghostVars,
                   mode, inbox, readerVars>>

\* try: with data_lock:
SInitAcquire(s) ==
    /\ spc[s] = "init_lock"
    /\ data_lock = NoThread
    /\ data_lock' = s
    /\ spc' = [spc EXCEPT ![s] = "init_send"]
    /\ UNCHANGED <<hwVars, active, now, ncalls, current, hist, ws_lock, ws_clients,
                   writerVars, ghostVars, mode, inbox, readerVars>>

\* ws.send(json.dumps(shared_data['current'])) inside the with block; the
\* block's end releases data_lock, also when the send raises (and the
\* except clause then leads to the finally clause).
SInitSend(s) ==
    /\ spc[s] = "init_send"
    /\ \/ /\ mode[s] = "ok"
          /\ inbox' = [inbox EXCEPT ![s] =
                           Append(@, Message("init", Len(log), current))]
          /\ spc' = [spc EXCEPT ![s] = "recv"]
       \/ /\ mode[s] = "dead"
          /\ inbox' = inbox
          /\ spc' = [spc EXCEPT ![s] = "finally_lock"]
    /\ data_lock' = NoThread
    /\ UNCHANGED <<hwVars, active, now, ncalls, current, hist, ws_lock, ws_clients,
                   writerVars, ghostVars, mode, readerVars>>

\* while True: message = ws.receive(timeout=30): the client sends nothing
\* and the 30 s pass; receive returns None.
SRecvTimeout(s) ==
    /\ active.idle
    /\ spc[s] = "recv"
    /\ mode[s] # "dead"
    /\ spc' = [spc EXCEPT ![s] = "message"]
    /\ UNCHANGED <<hwVars, active, now, ncalls, storeVars, ws_lock, ws_clients,
                   writerVars, ghostVars, mode, inbox, readerVars>>

\* if message: pass; the while loop starts over.
SMessage(s) ==
    /\ spc[s] = "message"
    /\ spc' = [spc EXCEPT ![s] = "recv"]
    /\ UNCHANGED <<hwVars, active, now, ncalls, storeVars, ws_lock, ws_clients,
                   writerVars, ghostVars, mode, inbox, readerVars>>

\* while True: ws.receive(timeout=30) raises once the connection is gone.
SRecvFail(s) ==
    /\ spc[s] = "recv"
    /\ mode[s] = "dead"
    /\ spc' = [spc EXCEPT ![s] = "finally_lock"]
    /\ UNCHANGED <<hwVars, active, now, ncalls, storeVars, ws_lock, ws_clients,
                   writerVars, ghostVars, mode, inbox, readerVars>>

\* finally: ws_clients.discard(ws) without with ws_lock.
SFinallyWithoutLock(s) ==
    /\ spc[s] = "finally_lock"
    /\ spc' = [spc EXCEPT ![s] = "discard"]
    /\ UNCHANGED <<hwVars, active, now, ncalls, storeVars, ws_lock, ws_clients,
                   writerVars, ghostVars, mode, inbox, readerVars>>

\* finally: with ws_lock:
SFinallyAcquire(s) ==
    /\ spc[s] = "finally_lock"
    /\ ws_lock = NoThread
    /\ ws_lock' = s
    /\ spc' = [spc EXCEPT ![s] = "discard"]
    /\ UNCHANGED <<hwVars, active, now, ncalls, storeVars, ws_clients, writerVars,
                   ghostVars, mode, inbox, readerVars>>

\* A finally clause that releases the lock and returns, the discard left
\* out.
SReturnWithoutDiscard(s) ==
    /\ spc[s] = "discard"
    /\ ws_lock' = NoThread
    /\ spc' = [spc EXCEPT ![s] = "closed"]
    /\ UNCHANGED <<hwVars, active, now, ncalls, storeVars, ws_clients,
                   writerVars, ghostVars, mode, inbox, readerVars>>

\* ws_clients.discard(ws); the with block ends and the handler returns.
SDiscard(s) ==
    /\ spc[s] = "discard"
    /\ ws_clients' = ws_clients \ {s}
    /\ ws_lock' = NoThread
    /\ spc' = [spc EXCEPT ![s] = "closed"]
    /\ UNCHANGED <<hwVars, active, now, ncalls, storeVars, writerVars, ghostVars,
                   mode, inbox, readerVars>>

\* The client stops reading: sends to it block.
ClientStall(s) ==
    /\ s \in active.subs
    /\ active.faults
    /\ spc[s] \notin {"idle", "closed"}
    /\ mode[s] = "ok"
    /\ mode' = [mode EXCEPT ![s] = "slow"]
    /\ UNCHANGED <<hwVars, active, now, ncalls, storeVars, ws_lock, ws_clients,
                   writerVars, ghostVars, spc, inbox, readerVars>>

\* The client reads again.
ClientResume(s) ==
    /\ mode[s] = "slow"
    /\ mode' = [mode EXCEPT ![s] = "ok"]
    /\ UNCHANGED <<hwVars, active, now, ncalls, storeVars, ws_lock, ws_clients,
                   writerVars, ghostVars, spc, inbox, readerVars>>

\* The connection is lost: sends and receives on it raise.
ClientDrop(s) ==
    /\ s \in active.subs
    /\ active.faults
    /\ spc[s] \notin {"idle", "closed"}
    /\ mode[s] # "dead"
    /\ mode' = [mode EXCEPT ![s] = "dead"]
    /\ UNCHANGED <<hwVars, active, now, ncalls, storeVars, ws_lock, ws_clients,
                   writerVars, ghostVars, spc, inbox, readerVars>>

(***************************************************************************)
(* The REST endpoints (src/api_server.py:109-187), one thread per request. *)
(***************************************************************************)
\* The list object the local dict history refers to under key k, as it is now.
ReadList(r, k) == IF rhist[r][k].live THEN hist[k] ELSE rhist[r][k].val

\* The request's locals once it has returned.
RFinish(r, response) ==
    /\ resp' = [resp EXCEPT ![r] = response]
    /\ rpc' = [rpc EXCEPT ![r] = "done"]
    /\ rhist' = [rhist EXCEPT ![r] = NoCopy]
    /\ rstart' = [rstart EXCEPT ![r] = 0]
    /\ rkey' = [rkey EXCEPT ![r] = 0]
    /\ rphase' = [rphase EXCEPT ![r] = "none"]
    /\ racc' = [racc EXCEPT ![r] = NoDict]

\* A request arrives; get_history reads its query parameters.
RCall(r) ==
    /\ r \in active.readers
    /\ rpc[r] = "idle"
    /\ active.overlap \/ \A w \in Writers : wpc[w] = "idle"
    /\ \E op \in active.ops :
          \/ /\ op = "history"
             /\ \E m \in active.minutes, p \in active.points :
                   rargs' = [rargs EXCEPT ![r] =
                                 [op |-> op, minutes |-> m, points |-> p]]
          \/ /\ op # "history"
             /\ rargs' = [rargs EXCEPT ![r] =
                              [op |-> op, minutes |-> 0, points |-> 0]]
    /\ rpc' = [rpc EXCEPT ![r] = "lock"]
    /\ rfrom' = [rfrom EXCEPT ![r] = Len(snaps)]
    /\ UNCHANGED <<hwVars, active, now, ncalls, storeVars, ws_lock, ws_clients,
                   writerVars, ghostVars, subVars, rhist, rcutoff, rstart,
                   rkey, rphase, racc, resp, rn>>

\* with data_lock:
RAcquire(r) ==
    /\ rpc[r] = "lock"
    /\ data_lock = NoThread
    /\ data_lock' = r
    /\ rpc' = [rpc EXCEPT ![r] = "locked"]
    /\ UNCHANGED <<hwVars, active, now, ncalls, current, hist, ws_lock, ws_clients,
                   writerVars, ghostVars, subVars, rargs, rhist, rcutoff,
                   rstart, rkey, rphase, racc, resp, rfrom, rn>>

\* get_current: return jsonify(shared_data['current']) inside the with block.
GetCurrent(r) ==
    /\ rpc[r] = "locked"
    /\ rargs[r].op = "current"
    /\ data_lock' = NoThread
    /\ rn' = [rn EXCEPT ![r] = Len(log)]
    /\ RFinish(r, [kind |-> "current", body |-> current])
    /\ UNCHANGED <<hwVars, active, now, ncalls, current, hist, ws_lock, ws_clients,
                   writerVars, ghostVars, subVars, rargs, rcutoff, rfrom>>

\* get_history, get_stats: history = shared_data['history'].copy() copies the
\* dict, not the lists; the with block ends.
RCopy(r) ==
    /\ rpc[r] = "locked"
    /\ rargs[r].op \in {"history", "stats"}
    /\ rhist' = [rhist EXCEPT ![r] = LiveCopy]
    /\ data_lock' = NoThread
    /\ rpc' = [rpc EXCEPT ![r] =
                   IF rargs[r].op = "history" THEN "h_check" ELSE "s_check"]
    /\ UNCHANGED <<hwVars, active, now, ncalls, current, hist, ws_lock, ws_clients,
                   writerVars, ghostVars, subVars, rargs, rcutoff, rstart,
                   rkey, rphase, racc, resp, rfrom, rn>>

\* get_history: if history['timestamps']: cutoff_time = time.time() - minutes*60
\* (the cutoff is recorded on the other branch too, for the properties).
GetHistoryCheck(r) ==
    /\ rpc[r] = "h_check"
    /\ rcutoff' = [rcutoff EXCEPT ![r] = now - rargs[r].minutes * 60]
    /\ rpc' = [rpc EXCEPT ![r] =
                   IF ReadList(r, "timestamps") # <<>> THEN "h_scan"
                   ELSE "h_dump"]
    /\ rkey' = [rkey EXCEPT ![r] = 1]
    /\ UNCHANGED <<hwVars, active, now, ncalls, storeVars, ws_lock, ws_clients,
                   writerVars, ghostVars, subVars, rargs, rhist, rstart,
                   rphase, racc, resp, rfrom, rn>>

\* get_history: the loop that finds start_idx.  The list only grows while
\* the loop runs, so the loop's result is that of a scan of the list as it is
\* when the loop ends.
GetHistoryScan(r) ==
    /\ rpc[r] = "h_scan"
    /\ rstart' = [rstart EXCEPT ![r] =
                      StartIdx(ReadList(r, "timestamps"), rcutoff[r])]
    /\ rpc' = [rpc EXCEPT ![r] = "h_slice"]
    /\ UNCHANGED <<hwVars, active, now, ncalls, storeVars, ws_lock, ws_clients,
                   writerVars, ghostVars, subVars, rargs, rhist, rcutoff,
                   rkey, rphase, racc, resp, rfrom, rn>>

\* get_history: {key: values[start_idx:] for key, values in history.items()},
\* one key per step.
GetHistorySlice(r) ==
    /\ rpc[r] = "h_slice"
    /\ LET k == HistKeys[rkey[r]] IN
           racc' = [racc EXCEPT ![r] =
                        @ @@ (k :> SliceFrom(ReadList(r, k), rstart[r]))]
    /\ IF rkey[r] < Len(HistKeys)
         THEN /\ rkey' = [rkey EXCEPT ![r] = @ + 1]
              /\ rpc' = rpc
         ELSE /\ rkey' = [rkey EXCEPT ![r] = 0]
              /\ rpc' = [rpc EXCEPT ![r] = "h_down"]
    /\ UNCHANGED <<hwVars, active, now, ncalls, storeVars, ws_lock, ws_clients,
                   writerVars, ghostVars, subVars, rargs, rhist, rcutoff,
                   rstart, rphase, resp, rfrom, rn>>

\* get_history with a downsampling that draws the entries to keep at random
\* (random.sample of the indices) instead of taking every step-th entry.
GetHistoryReturnsSample(r) ==
    /\ rpc[r] = "h_down"
    /\ LET n == Len(racc[r]["timestamps"])
           points == rargs[r].points
       IN  IF n > points
             THEN \E kept \in {s \in SUBSET (1..n) : Cardinality(s) = points} :
                     LET pick(values) ==
                             SelectSeq([i \in 1..n |-> [i |-> i, v |-> values[i]]],
                                       LAMBDA e : e.i \in kept)
                     IN  RFinish(r, [kind |-> "history",
                                     body |-> [k \in HistKeySet |->
                                                  [j \in 1..points |->
                                                      pick(racc[r][k])[j].v]]])
             ELSE RFinish(r, [kind |-> "history", body |-> racc[r]])
    /\ UNCHANGED <<hwVars, active, now, ncalls, storeVars, ws_lock, ws_clients,
                   writerVars, ghostVars, subVars, rargs, rcutoff, rfrom, rn>>

\* get_history: the downsampling and return jsonify(filtered_history).
GetHistoryReturn(r) ==
    /\ rpc[r] = "h_down"
    /\ RFinish(r, HistoryResponse(racc[r], rargs[r].points))
    /\ UNCHANGED <<hwVars, active, now, ncalls, storeVars, ws_lock, ws_clients,
                   writerVars, ghostVars, subVars, rargs, rcutoff, rfrom, rn>>

\* get_history on an empty timestamps list: return jsonify(history)
\* serialises the lists the dict refers to, one key per step.
GetHistoryDump(r) ==
    /\ rpc[r] = "h_dump"
    /\ LET k == HistKeys[rkey[r]]
           d == racc[r] @@ (k :> ReadList(r, k))
       IN  IF rkey[r] < Len(HistKeys)
             THEN /\ racc' = [racc EXCEPT ![r] = d]
                  /\ rkey' = [rkey EXCEPT ![r] = @ + 1]
                  /\ UNCHANGED <<rpc, rhist, rstart, rphase, resp>>
             ELSE RFinish(r, [kind |-> "history", body |-> d])
    /\ UNCHANGED <<hwVars, active, now, ncalls, storeVars, ws_lock, ws_clients,
                   writerVars, ghostVars, subVars, rargs, rcutoff, rfrom, rn>>

\* get_stats: if not history['timestamps']: return the 404 error.
GetStatsCheck(r) ==
    /\ rpc[r] = "s_check"
    /\ IF NoData(ReadList(r, "timestamps"))
         THEN RFinish(r, ErrorNoData)
         ELSE /\ rpc' = [rpc EXCEPT ![r] = "s_calc"]
              /\ rkey' = [rkey EXCEPT ![r] = 1]
              /\ rphase' = [rphase EXCEPT ![r] = "empty"]
              /\ racc' = [racc EXCEPT ![r] = [body |-> <<>>, tmp |-> <<>>]]
              /\ UNCHANGED <<rhist, rstart, resp>>
    /\ UNCHANGED <<hwVars, active, now, ncalls, storeVars, ws_lock, ws_clients,
                   writerVars, ghostVars, subVars, rargs, rcutoff, rfrom, rn>>

\* The step of get_stats after the summary of key number i.
StatsNextKey(r, i, body) ==
    /\ racc' = [racc EXCEPT ![r] = [body |-> body, tmp |-> <<>>]]
    /\ IF i < Len(StatKeys)
         THEN /\ rkey' = [rkey EXCEPT ![r] = i + 1]
              /\ rphase' = [rphase EXCEPT ![r] = "empty"]
              /\ rpc' = rpc
         ELSE /\ rkey' = [rkey EXCEPT ![r] = 0]
              /\ rphase' = [rphase EXCEPT ![r] = "data_points"]
              /\ rpc' = [rpc EXCEPT ![r] = "s_tail"]

\* get_stats: calc_stats(history[key]).  not values, min(values), max(values),
\* sum(values) and len(values) each read the list, one per step.
GetStatsCalc(r) ==
    /\ rpc[r] = "s_calc"
    /\ LET k == StatKeys[rkey[r]]
           values == ReadList(r, k)
           tmp == racc[r].tmp
       IN  \/ /\ rphase[r] = "empty"
              /\ IF values = <<>>
                   THEN StatsNextKey(r, rkey[r],
                            racc[r].body @@ (k :> CalcStats(<<>>)))
                   ELSE /\ rphase' = [rphase EXCEPT ![r] = "min"]
                        /\ UNCHANGED <<racc, rkey, rpc>>
           \/ /\ rphase[r] = "min"
              /\ racc' = [racc EXCEPT ![r].tmp = [min |-> SeqMin(values)]]
              /\ rphase' = [rphase EXCEPT ![r] = "max"]
              /\ UNCHANGED <<rkey, rpc>>
           \/ /\ rphase[r] = "max"
              /\ racc' = [racc EXCEPT ![r].tmp =
                              tmp @@ [max |-> SeqMax(values)]]
              /\ rphase' = [rphase EXCEPT ![r] = "sum"]
              /\ UNCHANGED <<rkey, rpc>>
           \/ /\ rphase[r] = "sum"
              /\ racc' = [racc EXCEPT ![r].tmp =
                              tmp @@ [sum |-> SeqSum(values)]]
              /\ rphase' = [rphase EXCEPT ![r] = "len"]
              /\ UNCHANGED <<rkey, rpc>>
           \/ /\ rphase[r] = "len"
              /\ StatsNextKey(r, rkey[r],
                     racc[r].body @@
                         (k :> [min |-> tmp.min, max |-> tmp.max,
                                avg |-> Quotient(tmp.sum, Len(values))]))
    /\ UNCHANGED <<hwVars, active, now, ncalls, storeVars, ws_lock, ws_clients,
                   writerVars, ghostVars, subVars, rargs, rhist, rcutoff,
                   rstart, resp, rfrom, rn>>

\* get_stats: 'data_points': len(history['timestamps']) and
\* 'time_range_seconds': history['timestamps'][-1] - history['timestamps'][0]
\* if len(history['timestamps']) > 1 else 0, one read of the list per step,
\* and return jsonify(stats).
GetStatsTail(r) ==
    /\ rpc[r] = "s_tail"
    /\ LET timestamps == ReadList(r, "timestamps")
           tmp == racc[r].tmp
           Return(range) ==
               RFinish(r, [kind |-> "stats", body |-> racc[r].body,
                           data_points |-> tmp.data_points,
                           time_range_seconds |-> range])
       IN  \/ /\ rphase[r] = "data_points"
              /\ racc' = [racc EXCEPT ![r].tmp =
                              [data_points |-> Len(timestamps)]]
              /\ rphase' = [rphase EXCEPT ![r] = "range_if"]
              /\ UNCHANGED <<rpc, rhist, rstart, rkey, resp>>
           \/ /\ rphase[r] = "range_if"
              /\ IF Len(timestamps) > 1
                   THEN /\ rphase' = [rphase EXCEPT ![r] = "range_last"]
                        /\ UNCHANGED <<rpc, rhist, rstart, rkey, racc, resp>>
                   ELSE Return(0)
           \/ /\ rphase[r] = "range_last"
              /\ racc' = [racc EXCEPT ![r].tmp =
                              tmp @@ [last |-> timestamps[Len(timestamps)]]]
              /\ rphase' = [rphase EXCEPT ![r] = "range_first"]
              /\ UNCHANGED <<rpc, rhist, rstart, rkey, resp>>
           \/ /\ rphase[r] = "range_first"
              /\ Return(tmp.last - timestamps[1])
    /\ UNCHANGED <<hwVars, active, now, ncalls, storeVars, ws_lock, ws_clients,
                   writerVars, ghostVars, subVars, rargs, rcutoff, rfrom, rn>>

\* The response has been sent and the request thread ends.
RReturn(r) ==
    /\ rpc[r] = "done"
    /\ rpc' = [rpc EXCEPT ![r] = "idle"]
    /\ rargs' = [rargs EXCEPT ![r] = NoArgs]
    /\ resp' = [resp EXCEPT ![r] = NoResponse]
    /\ rcutoff' = [rcutoff EXCEPT ![r] = 0]
    /\ rfrom' = [rfrom EXCEPT ![r] = 1]
    /\ rn' = [rn EXCEPT ![r] = 0]
    /\ UNCHANGED <<hwVars, active, now, ncalls, storeVars, ws_lock, ws_clients,
                   writerVars, ghostVars, subVars, rhist, rstart, rkey,
                   rphase, racc>>

(***************************************************************************)
(* The top level of graph_faster up to the end of the device bring-up      *)
(* (src/graph_faster.py:158-159).                                          *)
(***************************************************************************)
apiVars == <<active, now, ncalls, storeVars, ws_lock, ws_clients, writerVars,
             ghostVars, subVars, readerVars>>

notDetVars == <<apiVars, pollVars, guiVars, unitVars>>

\* The reader (and device slot) a detect function is for.
SlotOf(fn) == IF fn = "detect_gmc500" THEN "cpm" ELSE "emf"

\* detect_gmc500(PORT_500_DEFAULT, PORT_390_DEFAULT) is called.
DetectGmc500Call ==
    /\ active.detect
    /\ dpc = "import"
    /\ det' = Frame("detect_gmc500", PORT_500_DEFAULT, PORT_390_DEFAULT)
    /\ dpc' = "detect_gmc500"
    /\ UNCHANGED <<notDetVars, port_500, port_390, detected>>

\* while attempt < max_attempts: one probe.
DetectProbe ==
    /\ dpc \in {"detect_gmc500", "detect_emf390"}
    /\ ~det.returned
    /\ det.attempt < max_attempts
    /\ \E outcome \in ProbeOutcomes :
          /\ det' = IF det.fn = "detect_gmc500"
                      THEN DetectGmc500Step(det, outcome)
                      ELSE DetectEmf390Step(det, outcome)
          /\ detected' = [detected EXCEPT ![SlotOf(det.fn)] = (outcome = "match")]
    /\ UNCHANGED <<notDetVars, dpc, port_500, port_390>>

\* port_500, port_390 = detect_gmc500(...): the function has returned.
DetectGmc500Return ==
    /\ dpc = "detect_gmc500"
    /\ det.returned \/ det.attempt >= max_attempts
    /\ port_500' = DetectResult(det)[1]
    /\ port_390' = DetectResult(det)[2]
    /\ det' = NoFrame
    /\ dpc' = "line_159"
    /\ UNCHANGED <<notDetVars, detected>>

\* detect_emf390(port_390) is called.
DetectEmf390Call ==
    /\ dpc = "line_159"
    /\ det' = Frame("detect_emf390", None, port_390)
    /\ dpc' = "detect_emf390"
    /\ UNCHANGED <<notDetVars, port_500, port_390, detected>>

\* port_390 = detect_emf390(port_390): the function has returned.
DetectEmf390Return ==
    /\ dpc = "detect_emf390"
    /\ det.returned \/ det.attempt >= max_attempts
    /\ port_390' = DetectResult(det)[1]
    /\ det' = NoFrame
    /\ dpc' = "detected"
    /\ UNCHANGED <<notDetVars, port_500, detected>>

\* ser_390 = None; ser_500 = None; try: if port_390: ser_390 =
\* serial.Serial(port_390, ...) / except Exception: ser_390 = None.  The
\* open succeeds or raises.
OpenPersistent390 ==
    /\ dpc = "detected"
    /\ \/ port_390 # None /\ ser' = [ser EXCEPT !["emf"] = "open"]
       \/ ser' = [ser EXCEPT !["emf"] = None]
    /\ dpc' = "open_500"
    /\ UNCHANGED <<apiVars, guiVars, det, port_500, port_390, detected, sensor,
                   locks, link, nlink, ppc, pollerLocals, pollerCounters,
                   pollerGhost, unitVars>>

\* try: if port_500: ser_500 = serial.Serial(port_500, ...) / except
\* Exception: ser_500 = None.  The reader threads are started next.
OpenPersistent500 ==
    /\ dpc = "open_500"
    /\ \/ port_500 # None /\ ser' = [ser EXCEPT !["cpm"] = "open"]
       \/ ser' = [ser EXCEPT !["cpm"] = None]
    /\ dpc' = "threads"
    /\ UNCHANGED <<apiVars, guiVars, det, port_500, port_390, detected, sensor,
                   locks, link, nlink, ppc, pollerLocals, pollerCounters,
                   pollerGhost, unitVars>>

(***************************************************************************)
(* emf_reader_loop and cpm_reader_loop (src/graph_faster.py:230-417), one  *)
(* thread each.  The two functions have the same shape; p tells them apart.*)
(***************************************************************************)
notPollVars == <<apiVars, detVars, guiVars, unitVars>>

\* The global port_390 / port_500.
PortOf(p) == IF Conn(p) = "emf" THEN port_390 ELSE port_500

\* The command the loop body is at.
Cmd(p) == Commands(p)[pcmd[p]]

\* The device: the state of the link changes.  The thread meets the link
\* only in write, read and serial.Serial, so a change at another moment is
\* the same as a change just before the next of these.
LinkChange(p) ==
    /\ p \in active.pollers
    /\ \E t \in Threads :
          Conn(t) = p /\ ppc[t] \in {"write", "read", "reopen"}
    /\ nlink[p] < active.linkchanges
    /\ nlink' = [nlink EXCEPT ![p] = @ + 1]
    /\ \E l \in active.links[p] \ {link[p]} : link' = [link EXCEPT ![p] = l]
    /\ UNCHANGED <<notPollVars, sensor, locks, ser, ppc, pollerLocals,
                   pollerCounters, pollerGhost>>

\* if not ser_390: return.  Otherwise the while True loop is entered
\* (graph.py enters it at once).
PStart(p) ==
    /\ p \in active.pollers
    /\ active.detect => dpc = "threads"
    /\ ppc[p] = "start"
    /\ ppc' = [ppc EXCEPT ![p] =
                   IF active.script = "graph_faster" /\ ser[Conn(p)] = None
                     THEN "exited"
                   ELSE "write"]
    /\ UNCHANGED <<notPollVars, sensor, locks, ser, link, nlink, pollerLocals,
                   pollerCounters, pollerGhost>>

\* Where an exception raised at a point of the try block takes the thread.
Raise(p, where, exc) ==
    /\ ppc' = [ppc EXCEPT ![p] =
                   IF CaughtBy(active.script, where, exc) = "escapes"
                     THEN "dead"
                   ELSE CaughtBy(active.script, where, exc)]
    /\ pexc' = [pexc EXCEPT ![p] = exc]

\* The loop body goes on after the command at index pcmd: to the next
\* command, or to the sleep that ends the iteration.
NextCommand(p) ==
    IF pcmd[p] < Len(Commands(p))
      THEN /\ pcmd' = [pcmd EXCEPT ![p] = @ + 1]
           /\ ppc' = [ppc EXCEPT ![p] = "write"]
      ELSE /\ pcmd' = [pcmd EXCEPT ![p] = 1]
           /\ ppc' = [ppc EXCEPT ![p] = "sleep"]

\* emf_reader_loop calls ser_390.reset_input_buffer() before each of its
\* three writes; cpm_reader_loop calls ser_500.reset_input_buffer() once,
\* before <GETCPMH>>, and writes <GETCPML>> without it.
ResetBeforeWrite(p) == Conn(p) = "emf" \/ pcmd[p] = 1

\* What is left of an answer still to come once the write has been made:
\* reset_input_buffer throws the answer away if its bytes are in by then,
\* and does nothing to an answer that arrives after it.
AfterReset(p) ==
    IF ResetBeforeWrite(p) /\ ser[Conn(p)] = "open"
      THEN {late[Conn(p)], <<>>}
    ELSE {late[Conn(p)]}

\* try: ser.reset_input_buffer() / except: pass; ser.write(command).
PWrite(p) ==
    /\ ppc[p] = "write"
    /\ LET exc == WriteRaises(ser[Conn(p)], link[Conn(p)]) IN
           IF exc = NoException
             THEN /\ ppc' = [ppc EXCEPT ![p] = "read"]
                  /\ pexc' = pexc
             ELSE Raise(p, "write", exc)
    /\ \E l \in AfterReset(p) : late' = [late EXCEPT ![Conn(p)] = l]
    /\ UNCHANGED <<notPollVars, sensor, locks, ser, link, nlink, pcmd, presp, pv,
                   pollerCounters, badrun, reopens, pfrom>>

\* The other threads that are in their loops on the connection of thread p.
Sharers(p) ==
    {t \in (Threads \ {p}) \cap active.pollers :
        Conn(t) = Conn(p) /\ ppc[t] \notin {"start", "exited", "dead"}}

\* What a read returns on a link that is in order: the answer to the command
\* written.  With another thread on the connection the bytes waiting may be
\* the answer to that thread's command, or none, that thread having read
\* them or thrown them away with reset_input_buffer.
Answers(p) ==
    {[from |-> c, r |-> WellFormed(c, v)] :
         c \in {Cmd(p)} \cup {Cmd(t) : t \in Sharers(p)},
         v \in active.readings}
    \cup (IF Sharers(p) = {} THEN {} ELSE {[from |-> NoCommand, r |-> <<>>]})

\* What a read returns, with the command it is the answer to.  The bytes
\* of an answer still to come are the first the port has: ser_500.read(4)
\* returns them, and r.split(' ') finds its token in them.
Delivered(p) ==
    LET c == Conn(p) IN
    IF ser[c] = "closed" THEN {[from |-> NoCommand, r |-> <<>>]}
    ELSE IF link[c] \in {"ok", "late"} /\ late[c] # <<>>
      THEN {[from |-> late[c][1], r |-> WellFormed(late[c][1], v)] :
                v \in active.readings}
    ELSE IF link[c] = "ok" THEN Answers(p)
    ELSE IF link[c] = "garbage"
      THEN {[from |-> Cmd(p), r |-> m] : m \in MalformedResponses(Cmd(p))}
    ELSE {[from |-> NoCommand, r |-> <<>>]}

\* The answer still to come after a read.  On a late link it is the answer
\* to the command just written.  ser_500.read(4) that returned an earlier
\* answer leaves the four bytes of this one in the port;
\* _read_response_bg reads all the port has.
Pending(p) ==
    LET c == Conn(p) IN
    IF ser[c] = "closed" THEN late[c]
    ELSE IF link[c] = "late" THEN <<Cmd(p)>>
    ELSE IF link[c] = "ok"
      THEN IF late[c] # <<>> /\ c = "cpm" THEN <<Cmd(p)>> ELSE <<>>
    ELSE late[c]

\* r = _read_response_bg(ser_390), which catches what the port raises and
\* returns what it has read; resp = ser_500.read(4), which returns up to four
\* bytes or raises.  A port closed since the write (by closeEvent) raises
\* PortNotOpenError.
PRead(p) ==
    /\ ppc[p] = "read"
    /\ IF Conn(p) = "cpm" /\ ser[Conn(p)] = "closed"
         THEN /\ Raise(p, "read", "serial")
              /\ presp' = presp
              /\ UNCHANGED lateVars
         ELSE IF Conn(p) = "cpm" /\ link[Conn(p)] \in {"ioerror", "unplugged"}
         THEN /\ Raise(p, "read", "io")
              /\ presp' = presp
              /\ UNCHANGED lateVars
         ELSE /\ \E a \in Delivered(p) :
                    /\ presp' = [presp EXCEPT ![p] = a.r]
                    /\ pfrom' = [pfrom EXCEPT ![p] = a.from]
              /\ late' = [late EXCEPT ![Conn(p)] = Pending(p)]
              /\ ppc' = [ppc EXCEPT ![p] = "decode"]
              /\ pexc' = pexc
    /\ UNCHANGED <<notPollVars, sensor, locks, ser, link, nlink, pcmd, pv,
                   pollerCounters, badrun, reopens>>

\* if r: try: v = float(r.split(' ')[2]) ... except Exception: (warning);
\* if len(resp) == 4: try: v = int.from_bytes(resp, "big") ... else: (warning).
\* A response that does not decode leaves the loop body at the next command.
PDecode(p) ==
    /\ ppc[p] = "decode"
    /\ LET d == Decode(Cmd(p), presp[p]) IN
           IF d.ok
             THEN /\ pv' = [pv EXCEPT ![p] = d.v]
                  /\ ppc' = [ppc EXCEPT ![p] = "lock"]
                  /\ pcmd' = pcmd
                  /\ badrun' = [badrun EXCEPT ![p] = 0]
                  /\ reopens' = [reopens EXCEPT ![p] = 0]
                  /\ pfrom' = pfrom
             ELSE /\ NextCommand(p)
                  /\ pv' = pv
                  /\ pfrom' = [pfrom EXCEPT ![p] = NoCommand]
                  /\ badrun' = [badrun EXCEPT ![p] =
                                    IF @ < max_consecutive_errors THEN @ + 1
                                    ELSE @]
                  /\ reopens' = reopens
    /\ presp' = [presp EXCEPT ![p] = <<>>]
    /\ UNCHANGED <<notPollVars, sensor, locks, ser, link, nlink, pexc,
                   pollerCounters, late>>

\* with emf_lock: / with cpm_lock:
PLockAcquire(p) ==
    /\ ppc[p] = "lock"
    /\ locks[LockOf(p)] = NoThread
    /\ locks' = [locks EXCEPT ![LockOf(p)] = p]
    /\ ppc' = [ppc EXCEPT ![p] = "store"]
    /\ UNCHANGED <<notPollVars, sensor, ser, link, nlink, pollerLocals,
                   pollerCounters, pollerGhost>>

\* emf_value = v (and the like); the with block ends.  After the first
\* command of the iteration: consecutive_errors = 0; reconnect_attempts = 0.
PStore(p) ==
    /\ ppc[p] = "store"
    /\ sensor' = [sensor EXCEPT ![GlobalOf(Cmd(p))] = pv[p]]
    /\ locks' = [locks EXCEPT ![LockOf(p)] = NoThread]
    /\ IF pcmd[p] = 1
         THEN /\ consecutive_errors' = [consecutive_errors EXCEPT ![p] = 0]
              /\ reconnect_attempts' = [reconnect_attempts EXCEPT ![p] = 0]
         ELSE UNCHANGED pollerCounters
    /\ NextCommand(p)
    /\ pv' = [pv EXCEPT ![p] = 0]
    /\ pfrom' = [pfrom EXCEPT ![p] = NoCommand]
    /\ UNCHANGED <<notPollVars, ser, link, nlink, pexc, presp, badrun, reopens,
                   late>>

\* time.sleep(0.01) / time.sleep(0.02) at the end of the try block.
PSleep(p) ==
    /\ ppc[p] = "sleep"
    /\ ppc' = [ppc EXCEPT ![p] = "write"]
    /\ UNCHANGED <<notPollVars, sensor, locks, ser, link, nlink, pollerLocals,
                   pollerCounters, pollerGhost>>

\* except serial.SerialException as e: consecutive_errors += 1;
\* if "Input/output error" in str(e) or "write failed" in str(e): ...
PExceptSerial(p) ==
    /\ ppc[p] = "except_serial"
    /\ consecutive_errors' = [consecutive_errors EXCEPT ![p] = @ + 1]
    /\ ppc' = [ppc EXCEPT ![p] = IF pexc[p] = "io" THEN "close"
                                 ELSE "threshold"]
    /\ pcmd' = [pcmd EXCEPT ![p] = 1]
    /\ UNCHANGED <<notPollVars, sensor, locks, ser, link, nlink, pexc, presp, pv,
                   reconnect_attempts, pollerGhost>>

\* try: if ser: ser.close() / except Exception: (error);
\* reconnect_attempts += 1.
PClose(p) ==
    /\ ppc[p] = "close"
    /\ \/ ser' = [ser EXCEPT ![Conn(p)] = IF @ = None THEN None ELSE "closed"]
       \/ ser[Conn(p)] # None /\ CaughtBy(active.script, "close", "other") = "pass" /\ ser' = ser
    /\ reconnect_attempts' = [reconnect_attempts EXCEPT ![p] = @ + 1]
    /\ ppc' = [ppc EXCEPT ![p] = "attempt"]
    /\ UNCHANGED <<notPollVars, sensor, locks, link, nlink, pollerLocals,
                   consecutive_errors, pollerGhost>>

\* if reconnect_attempts <= max_reconnect_attempts and port: (reopen)
\* else: reconnect_attempts = 0; time.sleep(5).
PReconnectCheck(p) ==
    /\ ppc[p] = "attempt"
    /\ IF MayReconnect(reconnect_attempts[p], PortOf(p))
         THEN /\ ppc' = [ppc EXCEPT ![p] = "reopen"]
              /\ UNCHANGED reconnect_attempts
         ELSE /\ reconnect_attempts' = [reconnect_attempts EXCEPT ![p] = 0]
              /\ ppc' = [ppc EXCEPT ![p] = "threshold"]
    /\ UNCHANGED <<notPollVars, sensor, locks, ser, link, nlink, pollerLocals,
                   consecutive_errors, pollerGhost>>

\* try: ser = serial.Serial(port, ...); consecutive_errors = 0;
\* time.sleep(0.5); continue / except Exception: ser = None; time.sleep(2).
PReopen(p) ==
    /\ ppc[p] = "reopen"
    /\ IF link[Conn(p)] = "unplugged"
         THEN /\ CaughtBy(active.script, "reopen", "serial") = "pass"
              /\ ser' = [ser EXCEPT ![Conn(p)] = None]
              /\ ppc' = [ppc EXCEPT ![p] = "threshold"]
              /\ UNCHANGED consecutive_errors
         ELSE /\ ser' = [ser EXCEPT ![Conn(p)] = "open"]
              /\ consecutive_errors' = [consecutive_errors EXCEPT ![p] = 0]
              /\ ppc' = [ppc EXCEPT ![p] = "backoff"]
    /\ reopens' = [reopens EXCEPT ![p] = IF @ < 2 THEN @ + 1 ELSE @]
    /\ UNCHANGED <<notPollVars, sensor, locks, link, nlink, pollerLocals,
                   reconnect_attempts, badrun, lateVars>>

\* except Exception as e: consecutive_errors += 1
PExceptOther(p) ==
    /\ ppc[p] = "except_other"
    /\ consecutive_errors' = [consecutive_errors EXCEPT ![p] = @ + 1]
    /\ ppc' = [ppc EXCEPT ![p] = "threshold"]
    /\ pcmd' = [pcmd EXCEPT ![p] = 1]
    /\ UNCHANGED <<notPollVars, sensor, locks, ser, link, nlink, pexc, presp, pv,
                   reconnect_attempts, pollerGhost>>

\* if consecutive_errors >= max_consecutive_errors: consecutive_errors = 0
PThreshold(p) ==
    /\ ppc[p] = "threshold"
    /\ consecutive_errors' =
           [consecutive_errors EXCEPT ![p] =
                IF @ >= max_consecutive_errors THEN 0 ELSE @]
    /\ ppc' = [ppc EXCEPT ![p] = "backoff"]
    /\ UNCHANGED <<notPollVars, sensor, locks, ser, link, nlink, pollerLocals,
                   reconnect_attempts, pollerGhost>>

\* time.sleep(0.5), the last statement of the except clauses (and the one
\* before continue): the while loop starts over.
PBackoff(p) ==
    /\ ppc[p] = "backoff"
    /\ ppc' = [ppc EXCEPT ![p] = "write"]
    /\ pexc' = [pexc EXCEPT ![p] = NoException]
    /\ UNCHANGED <<notPollVars, sensor, locks, ser, link, nlink, pcmd, presp, pv,
                   pollerCounters, pollerGhost>>

\* graph.py: except Exception: time.sleep(0.05); the while loop starts over.
PExceptAll(p) ==
    /\ ppc[p] = "except_all"
    /\ ppc' = [ppc EXCEPT ![p] = "write"]
    /\ pcmd' = [pcmd EXCEPT ![p] = 1]
    /\ pexc' = [pexc EXCEPT ![p] = NoException]
    /\ UNCHANGED <<notPollVars, sensor, locks, ser, link, nlink, presp, pv,
                   pollerCounters, pollerGhost>>

\* The steps of one reader thread.
PollerStep(p) ==
    \/ PStart(p)
    \/ PWrite(p)
    \/ PRead(p)
    \/ PDecode(p)
    \/ PLockAcquire(p)
    \/ PStore(p)
    \/ PSleep(p)
    \/ PExceptSerial(p)
    \/ PClose(p)
    \/ PReconnectCheck(p)
    \/ PReopen(p)
    \/ PExceptOther(p)
    \/ PThreshold(p)
    \/ PBackoff(p)
    \/ PExceptAll(p)

\* The steps of the reader threads and of their devices.
PollerNext ==
    \/ \E p \in Pollers : LinkChange(p)
    \/ \E p \in Threads : PollerStep(p)

(***************************************************************************)
(* MainWindow.update_gui (src/graph_faster.py:595-667), called by the      *)
(* window's timer in the GUI thread.                                       *)
(***************************************************************************)
GuiThread == "gui"

notGuiVars == <<active, now, storeVars, ws_lock, ws_clients, wkey, wdata, wrem,
                wcur, wdisc, wn, ghostVars, subVars, readerVars, detVars,
                sensor, ser, link, nlink, ppc, pollerLocals, pollerCounters,
                pollerGhost, unitVars>>

\* The timer fires: lat = lon = alt = vel = 0.0
UpdateGui ==
    /\ active.gui
    /\ gpc = "idle"
    /\ nticks < active.guiticks
    /\ nticks' = nticks + 1
    /\ fix' = ZeroFix
    /\ answer' = NoAnswer
    /\ gpc' = "gps"
    /\ UNCHANGED <<notGuiVars, ncalls, wpc, wargs, locks, vals>>

\* if gpsd_available: try: pkt = gpsd.get_current() ... except
GuiGps ==
    /\ gpc = "gps"
    /\ IF active.gpsd_available
         THEN \E a \in GpsAnswers :
                 /\ answer' = a
                 /\ fix' = GpsTry(a)
         ELSE UNCHANGED <<answer, fix>>
    /\ gpc' = "cpm_lock"
    /\ UNCHANGED <<notGuiVars, ncalls, wpc, wargs, locks, vals, nticks>>

\* with cpm_lock: / with emf_lock:
GuiLockAcquire ==
    /\ gpc \in Locks
    /\ locks[gpc] = NoThread
    /\ locks' = [locks EXCEPT ![gpc] = GuiThread]
    /\ gpc' = IF gpc = "cpm_lock" THEN "cpm_read" ELSE "emf_read"
    /\ UNCHANGED <<notGuiVars, ncalls, wpc, wargs, vals, nticks, fix, answer>>

\* cpm_h = float(cpm_h_value); cpm_l = float(cpm_l_value); the with block
\* ends.
GuiReadCpm ==
    /\ gpc = "cpm_read"
    /\ vals' = [vals EXCEPT !["cpm_h_value"] = sensor["cpm_h_value"],
                            !["cpm_l_value"] = sensor["cpm_l_value"]]
    /\ locks' = [locks EXCEPT !["cpm_lock"] = NoThread]
    /\ gpc' = "emf_lock"
    /\ UNCHANGED <<notGuiVars, ncalls, wpc, wargs, nticks, fix, answer>>

\* emf = float(emf_value); ef = float(ef_value); rf = float(rf_value); the
\* with block ends.
GuiReadEmf ==
    /\ gpc = "emf_read"
    /\ vals' = [vals EXCEPT !["emf_value"] = sensor["emf_value"],
                            !["ef_value"] = sensor["ef_value"],
                            !["rf_value"] = sensor["rf_value"]]
    /\ locks' = [locks EXCEPT !["emf_lock"] = NoThread]
    /\ gpc' = "api"
    /\ UNCHANGED <<notGuiVars, ncalls, wpc, wargs, nticks, fix, answer>>

\* now = time.time(); the buffers and the CSV line; if API_SERVER_ENABLED:
\* api_server.update_shared_data(now, cpm_h, ..., vel), which the GUI
\* thread runs as the writer "w1".
GuiCall ==
    /\ gpc = "api"
    /\ IF active.API_SERVER_ENABLED
         THEN /\ ncalls' = ncalls + 1
              /\ wargs' = [wargs EXCEPT !["w1"] = GuiSample(now, vals, fix)]
              /\ wpc' = [wpc EXCEPT !["w1"] = "lock"]
              /\ gpc' = "call"
         ELSE /\ gpc' = "idle"
              /\ UNCHANGED <<ncalls, wargs, wpc>>
    /\ UNCHANGED <<notGuiVars, locks, vals, nticks, fix, answer>>

\* update_shared_data returns; the labels and curves are drawn.
GuiReturn ==
    /\ gpc = "call"
    /\ wpc["w1"] = "idle"
    /\ gpc' = "idle"
    /\ UNCHANGED <<notGuiVars, ncalls, wpc, wargs, locks, vals, nticks, fix,
                   answer>>

\* MainWindow.closeEvent, which Qt calls in the GUI thread when the user
\* closes the window: try: if ser_390: ser_390.close() / except Exception.
CloseEvent390 ==
    /\ active.close
    /\ gpc = "idle"
    /\ ser' = [ser EXCEPT !["emf"] = IF @ = None THEN None ELSE "closed"]
    /\ gpc' = "close_500"
    /\ UNCHANGED <<apiVars, detVars, sensor, locks, link, nlink, ppc,
                   pollerLocals, pollerCounters, pollerGhost, nticks, fix,
                   vals, answer, unitVars>>

\* try: if ser_500: ser_500.close() / except Exception;
\* return super().closeEvent(ev): the window is gone, the timer is stopped.
CloseEvent500 ==
    /\ gpc = "close_500"
    /\ ser' = [ser EXCEPT !["cpm"] = IF @ = None THEN None ELSE "closed"]
    /\ gpc' = "closed"
    /\ UNCHANGED <<apiVars, detVars, sensor, locks, link, nlink, ppc,
                   pollerLocals, pollerCounters, pollerGhost, nticks, fix,
                   vals, answer, unitVars>>

\* The steps of the GUI thread outside update_shared_data.
GuiStep ==
    \/ CloseEvent390
    \/ CloseEvent500
    \/ UpdateGui
    \/ GuiGps
    \/ GuiLockAcquire
    \/ GuiReadCpm
    \/ GuiReadEmf
    \/ GuiCall
    \/ GuiReturn

Next ==
    \/ Tick
    \/ PollerNext
    \/ GuiStep
    \/ DetectGmc500Call
    \/ DetectProbe
    \/ DetectGmc500Return
    \/ DetectEmf390Call
    \/ DetectEmf390Return
    \/ OpenPersistent390
    \/ OpenPersistent500
    \/ \E w \in Writers :
          \/ WCall(w)
          \/ WAcquire(w)
          \/ WSetCurrent(w)
          \/ WAppend(w)
          \/ WTrim(w)
          \/ WRelease(w)
          \/ WReadCurrent(w)
          \/ WBcastAcquire(w)
          \/ WBcastNext(w)
          \/ WBcastSend(w)
          \/ WBcastEnd(w)
    \/ \E s \in Subs :
          \/ SConnect(s)
          \/ SAddAcquire(s)
          \/ SAdd(s)
          \/ SInitAcquire(s)
          \/ SInitSend(s)
          \/ SRecvTimeout(s)
          \/ SMessage(s)
          \/ SRecvFail(s)
          \/ SFinallyAcquire(s)
          \/ SDiscard(s)
          \/ ClientStall(s)
          \/ ClientResume(s)
          \/ ClientDrop(s)
    \/ \E r \in Readers :
          \/ RCall(r)
          \/ RAcquire(r)
          \/ GetCurrent(r)
          \/ RCopy(r)
          \/ GetHistoryCheck(r)
          \/ GetHistoryScan(r)
          \/ GetHistorySlice(r)
          \/ GetHistoryReturn(r)
          \/ GetHistoryDump(r)
          \/ GetStatsCheck(r)
          \/ GetStatsCalc(r)
          \/ GetStatsTail(r)
          \/ RReturn(r)

Spec == Init /\ [][Next]_vars

\* The reader threads alone.  A thread that can take a step takes one: the
\* operating system schedules it, its sleeps end, and its calls on the port
\* return or raise within the port's timeouts (timeout=0.5, write_timeout=1.0).
PollerInit == Init /\ active \in PollerRuns
PollerSpec ==
    /\ PollerInit
    /\ [][PollerNext]_vars
    /\ \A p \in Threads : WF_vars(PollerStep(p))

\* The server with a subscriber that sends nothing.  The threads of the
\* server run on: a writer or a handler that can take a step takes one.
\* Nothing is asked of the client, whose connection may stall or drop at
\* any time or never.
WriterStep(w) ==
    \/ WAcquire(w)
    \/ WSetCurrent(w)
    \/ WAppend(w)
    \/ WTrim(w)
    \/ WRelease(w)
    \/ WReadCurrent(w)
    \/ WBcastAcquire(w)
    \/ WBcastNext(w)
    \/ WBcastSend(w)
    \/ WBcastEnd(w)

HandlerStep(s) ==
    \/ SAddAcquire(s)
    \/ SAdd(s)
    \/ SInitAcquire(s)
    \/ SInitSend(s)
    \/ SRecvTimeout(s)
    \/ SMessage(s)
    \/ SRecvFail(s)
    \/ SFinallyAcquire(s)
    \/ SDiscard(s)

StreamNext ==
    \/ \E w \in Writers : WCall(w) \/ WriterStep(w)
    \/ \E s \in Subs :
          \/ SConnect(s)
          \/ HandlerStep(s)
          \/ ClientStall(s)
          \/ ClientResume(s)
          \/ ClientDrop(s)

StreamInit == Init /\ active \in StreamRuns
StreamSpec ==
    /\ StreamInit
    /\ [][StreamNext]_vars
    /\ \A w \in Writers : WF_vars(WriterStep(w))
    /\ \A s \in Subs : WF_vars(HandlerStep(s))

(***************************************************************************)
(* get_history run on its own (src/api_server.py:115-152): one request on  *)
(* a store that no writer touches meanwhile.                               *)
(***************************************************************************)
GetHistoryAlone ==
    /\ hq # NoQuery
    /\ hres = NoResponse
    /\ hres' = GetHistoryAnswer(hq)
    /\ UNCHANGED <<active, now, ncalls, storeVars, ws_lock, ws_clients,
                   writerVars, ghostVars, subVars, readerVars, detVars,
                   pollVars, guiVars, hq, rr, gb, ms>>

HistoryInit ==
    /\ active = NoRun
    /\ ProgramInit
    /\ hq \in HistoryQueries
    /\ hres = NoResponse
    /\ rr = NoRead
    /\ gb = NoBuffers
    /\ ms = NoScript

HistoryNext == GetHistoryAlone

HistorySpec == HistoryInit /\ [][HistoryNext]_vars

(***************************************************************************)
(* _read_response_bg run on its own (src/graph_faster.py:200-227): one     *)
(* call, beside a device that sends its chunks when it likes and a port    *)
(* that may begin to raise.                                                *)
(***************************************************************************)
notReadVars == <<active, now, ncalls, storeVars, ws_lock, ws_clients,
                 writerVars, ghostVars, subVars, readerVars, detVars,
                 pollVars, guiVars, hq, hres, gb, ms>>

\* The device sends its next chunk: it waits in the port's input buffer.
DeviceSend ==
    /\ rr.pc \notin {"none", "done"}
    /\ rr.todo # <<>>
    /\ rr' = [rr EXCEPT !.waiting = Append(@, Head(rr.todo)),
                        !.todo = Tail(@)]
    /\ UNCHANGED notReadVars

\* The port goes bad (the device is unplugged): its calls raise from now on.
PortBreak ==
    /\ rr.pc \notin {"none", "done"}
    /\ ~rr.broken
    /\ rr' = [rr EXCEPT !.broken = TRUE]
    /\ UNCHANGED notReadVars

\* while time.time() < deadline and not buf:
ReadFirstTest ==
    /\ rr.pc = "first_test"
    /\ rr' = [rr EXCEPT !.pc = IF rr.t < rr.deadline /\ rr.buf = <<>>
                                  THEN "first_poll" ELSE "if_buf"]
    /\ UNCHANGED notReadVars

\* try: n = ser.in_waiting; if n: buf += ser.read(n); break
\* except Exception: break
ReadFirstPoll ==
    /\ rr.pc = "first_poll"
    /\ rr' = IF rr.broken THEN [rr EXCEPT !.pc = "if_buf"]
             ELSE IF rr.waiting # <<>>
               THEN [rr EXCEPT !.buf = @ \o rr.waiting, !.waiting = <<>>,
                               !.last = rr.t, !.pc = "if_buf"]
             ELSE [rr EXCEPT !.pc = "first_sleep"]
    /\ UNCHANGED notReadVars

\* time.sleep(0.002)
ReadFirstSleep ==
    /\ rr.pc = "first_sleep"
    /\ rr' = [rr EXCEPT !.t = @ + 1, !.pc = "first_test"]
    /\ UNCHANGED notReadVars

\* The coalescing phase entered whether or not bytes were read.
ReadIfBufAlways ==
    /\ rr.pc = "if_buf"
    /\ rr' = [rr EXCEPT !.gap_dead = rr.t + gap_s, !.coalesced = TRUE,
                        !.pc = "gap_test"]
    /\ UNCHANGED notReadVars

\* if buf: gap_dead = time.time() + gap_s
ReadIfBuf ==
    /\ rr.pc = "if_buf"
    /\ rr' = IF rr.buf # <<>>
               THEN [rr EXCEPT !.gap_dead = rr.t + gap_s, !.coalesced = TRUE,
                               !.pc = "gap_test"]
             ELSE [rr EXCEPT !.pc = "return"]
    /\ UNCHANGED notReadVars

\* while time.time() < gap_dead:
ReadGapTest ==
    /\ rr.pc = "gap_test"
    /\ rr' = [rr EXCEPT !.pc = IF rr.t < rr.gap_dead THEN "gap_poll"
                               ELSE "return"]
    /\ UNCHANGED notReadVars

\* try: n = ser.in_waiting; if n: buf += ser.read(n);
\* gap_dead = time.time() + 0.01 / else: (sleep) / except Exception: break
ReadGapPoll ==
    /\ rr.pc = "gap_poll"
    /\ rr' = IF rr.broken THEN [rr EXCEPT !.pc = "return"]
             ELSE IF rr.waiting # <<>>
               THEN [rr EXCEPT !.buf = @ \o rr.waiting, !.waiting = <<>>,
                               !.last = rr.t,
                               !.gap_dead = rr.t + gap_next_s,
                               !.pc = "gap_test"]
             ELSE [rr EXCEPT !.pc = "gap_sleep"]
    /\ UNCHANGED notReadVars

\* time.sleep(0.001)
ReadGapSleep ==
    /\ rr.pc = "gap_sleep"
    /\ rr' = [rr EXCEPT !.t = @ + 1, !.pc = "gap_test"]
    /\ UNCHANGED notReadVars

\* try: return buf.decode("utf-8", errors="ignore").strip()
ReadReturn ==
    /\ rr.pc = "return"
    /\ rr' = [rr EXCEPT !.result = DecodeStrip(rr.buf), !.pc = "done"]
    /\ UNCHANGED notReadVars

\* The steps of the call.
ReadStep ==
    \/ ReadFirstTest
    \/ ReadFirstPoll
    \/ ReadFirstSleep
    \/ ReadIfBuf
    \/ ReadGapTest
    \/ ReadGapPoll
    \/ ReadGapSleep
    \/ ReadReturn

(***************************************************************************)
(* The GUI ring buffers on their own: the timer's ticks and the window     *)
(* chooser, both slots of the GUI thread, run one after the other.         *)
(***************************************************************************)
notBufVars == <<active, now, ncalls, storeVars, ws_lock, ws_clients,
                writerVars, ghostVars, subVars, readerVars, detVars,
                pollVars, guiVars, hq, hres, rr, ms>>
notScriptVars == <<active, now, ncalls, storeVars, ws_lock, ws_clients,
                   writerVars, ghostVars, subVars, readerVars, detVars,
                   pollVars, guiVars, hq, hres, rr, gb>>

\* update_gui: t_buf.append(now); cpmh_buf.append(cpm_h); ...;
\* alt_buf.append(alt).
BufTick ==
    /\ gb.on
    /\ gb.n < MaxBufTicks
    /\ \E v \in BufSamples :
          gb' = [gb EXCEPT
                   !.n = @ + 1,
                   !.last = "tick",
                   !.bufs = [b \in Buffers |->
                                DequeAppend(gb.bufs[b],
                                            BufEntry(b, gb.n + 1, v))]]
    /\ UNCHANGED notBufVars

\* change_time_window(label): TIME_WINDOW_MIN = int(label);
\* new_max = deque_len_for_window(minutes); each buffer = resize(buffer).
change_time_window(label) ==
    /\ gb.on
    /\ LET new_max == deque_len_for_window(label) IN
          gb' = [gb EXCEPT
                   !.TIME_WINDOW_MIN = label,
                   !.last = "resize",
                   !.bufs = [b \in Buffers |->
                                Deque(gb.bufs[b].items, new_max)]]
    /\ UNCHANGED notBufVars

BufferInit ==
    /\ active = NoRun
    /\ ProgramInit
    /\ hq = NoQuery
    /\ hres = NoResponse
    /\ rr = NoRead
    /\ gb = BuffersAtStart
    /\ ms = NoScript

BufferNext ==
    \/ BufTick
    \/ \E label \in WindowChoices : change_time_window(label)

BufferSpec == BufferInit /\ [][BufferNext]_vars

(***************************************************************************)
(* BOSS_SENSOR_SCRIPT.py run as a script: sensor_loop in the main thread.  *)
(***************************************************************************)
\* try: gpsd.connect() / except: (message).  Either way the loop goes on.
SGpsConnect ==
    /\ ms.pc = "gps_connect"
    /\ ms' = [ms EXCEPT !.pc = "connect_mqtt"]
    /\ UNCHANGED notScriptVars

\* if not connect_mqtt(): return.  connect_mqtt returns False when
\* mqtt_client.connect raises.
SConnectMqtt ==
    /\ ms.pc = "connect_mqtt"
    /\ \E ok \in BOOLEAN :
          ms' = [ms EXCEPT !.mqtt = IF ok THEN "connected" ELSE "failed",
                           !.pc = IF ok THEN "read_gps" ELSE "returned"]
    /\ UNCHANGED notScriptVars

\* lat, lon, alt, vel = read_gps_data()
SReadGps ==
    /\ ms.pc = "read_gps"
    /\ \E a \in GpsOutcomes :
          ms' = [ms EXCEPT !.gps = read_gps_data(a),
                           !.reads = Append(@, "gps"),
                           !.failed = IF a = "fix" THEN @ ELSE @ \cup {"gps"},
                           !.pc = "read_geiger"]
    /\ UNCHANGED notScriptVars

\* cpm_h, cpm_l = read_geiger_data()
SReadGeiger ==
    /\ ms.pc = "read_geiger"
    /\ \E o \in GeigerOutcomes :
          ms' = [ms EXCEPT !.geiger = read_geiger_data(o),
                           !.reads = Append(@, "geiger"),
                           !.failed = IF GeigerFailed(o) THEN @ \cup {"geiger"}
                                      ELSE @,
                           !.pc = "read_emf"]
    /\ UNCHANGED notScriptVars

\* emf, rf = read_emf_data()
SReadEmf ==
    /\ ms.pc = "read_emf"
    /\ \E o \in EmfOutcomes :
          ms' = [ms EXCEPT !.emf = read_emf_data(o),
                           !.reads = Append(@, "emf"),
                           !.failed = IF EmfFailed(o) THEN @ \cup {"emf"}
                                      ELSE @,
                           !.pc = "publish"]
    /\ UNCHANGED notScriptVars

\* timestamp = ...; publish_to_clair(timestamp, cpm_h, ...), whose
\* mqtt_client.publish(MQTT_TOPIC, json.dumps(payload)) hands the message
\* to the client and returns.
SPublish ==
    /\ ms.pc = "publish"
    /\ ms' = [ms EXCEPT !.outbox = Payload(ms.gps, ms.geiger, ms.emf),
                        !.sent = @ + 1,
                        !.pc = "sleep"]
    /\ UNCHANGED notScriptVars

\* time.sleep(2), and the next turn of while True.
SSleep ==
    /\ ms.pc = "sleep"
    /\ ms.cycle < MaxCycles
    /\ ms' = [ms EXCEPT !.cycle = @ + 1, !.reads = <<>>, !.failed = {},
                        !.sent = 0, !.outbox = NoPayload, !.pc = "read_gps"]
    /\ UNCHANGED notScriptVars

\* Ctrl+C: KeyboardInterrupt is raised in the main thread where it is.
\* The bare except of gpsd.connect and of read_gps_data swallows it; in the
\* other calls of the try block it reaches except KeyboardInterrupt:
\* break; outside the try block (connect_mqtt, the cleanup) nothing
\* catches it.
SKeyboardInterrupt ==
    /\ ms.pc \in {"gps_connect", "connect_mqtt", "read_gps", "read_geiger",
                  "read_emf", "publish", "sleep", "cleanup"}
    /\ ms.sigints < MaxInterrupts
    /\ ms' = [ms EXCEPT
                !.sigints = @ + 1,
                !.pc = CASE ms.pc = "gps_connect" -> "connect_mqtt"
                         [] ms.pc = "read_gps" -> "read_geiger"
                         [] ms.pc \in {"connect_mqtt", "cleanup"} -> "killed"
                         [] OTHER -> "cleanup",
                !.gps = IF ms.pc = "read_gps" THEN <<0, 0, 0, 0>> ELSE @,
                !.reads = IF ms.pc = "read_gps" THEN Append(@, "gps") ELSE @,
                !.failed = IF ms.pc = "read_gps" THEN @ \cup {"gps"} ELSE @]
    /\ UNCHANGED notScriptVars

\* mqtt_client.loop_stop(); mqtt_client.disconnect()
SCleanup ==
    /\ ms.pc = "cleanup"
    /\ ms' = [ms EXCEPT !.pc = "done"]
    /\ UNCHANGED notScriptVars

ScriptInit ==
    /\ active = NoRun
    /\ ProgramInit
    /\ hq = NoQuery
    /\ hres = NoResponse
    /\ rr = NoRead
    /\ gb = NoBuffers
    /\ ms = Script("gps_connect")

ScriptNext ==
    \/ SGpsConnect
    \/ SConnectMqtt
    \/ SReadGps
    \/ SReadGeiger
    \/ SReadEmf
    \/ SPublish
    \/ SSleep
    \/ SKeyboardInterrupt
    \/ SCleanup

ScriptSpec == ScriptInit /\ [][ScriptNext]_vars

\* The readers on a device that is late with its answers at one time and
\* in time at another.  No call on the port raises in these runs, so the
\* except clauses of the loops are never entered.
LateRuns ==
    { [NoRun EXCEPT !.pollers = {p}, !.links[p] = {"ok", "late"},
                    !.readings = {1}, !.linkchanges = 2] : p \in Pollers }

LateInit == active \in LateRuns /\ ProgramInit /\ UnitIdle

LateStep(p) ==
    \/ PStart(p)
    \/ PWrite(p)
    \/ PRead(p)
    \/ PDecode(p)
    \/ PLockAcquire(p)
    \/ PStore(p)
    \/ PSleep(p)

LateNext ==
    \/ \E p \in Pollers : LinkChange(p)
    \/ \E p \in Pollers : LateStep(p)

LateSpec == LateInit /\ [][LateNext]_vars

ReadInit ==
    /\ active = NoRun
    /\ ProgramInit
    /\ hq = NoQuery
    /\ hres = NoResponse
    /\ gb = NoBuffers
    /\ ms = NoScript
    /\ \E chunks \in ChunkSeqs(MaxChunks) : rr = ReadCall(chunks)

ReadNext == DeviceSend \/ PortBreak \/ ReadStep

\* The thread in the call runs: a step it can take it takes.
ReadSpec == ReadInit /\ [][ReadNext]_vars /\ WF_vars(ReadStep)

(***************************************************************************)
(* Properties.                                                             *)
(***************************************************************************)
Min2(a, b) == IF a <= b THEN a ELSE b

\* The messages a subscriber got from broadcast_to_websockets, in order.
Broadcasts(s) == SelectSeq(inbox[s], LAMBDA m : m.kind = "bcast")

\* Request r has returned a response of the given kind.
Returned(r, kind) == rpc[r] = "done" /\ resp[r].kind = kind

\* C1: a get_current read that follows the n-th write applied to the store
\* and precedes the next one returns exactly the ten values passed to the
\* n-th call, channel by channel (and the initial dict when n = 0).
C1_CurrentIsLastWrite ==
    \A r \in Readers :
        Returned(r, "current") =>
            /\ DOMAIN resp[r].body = DOMAIN InitCurrent
            /\ \A c \in DOMAIN InitCurrent :
                   resp[r].body[c] =
                       IF rn[r] = 0 THEN InitCurrent[c] ELSE log[rn[r]][c]

\* A get_current read that followed the second of two writes.
C1_Witness ==
    \E r \in Readers : Returned(r, "current") /\ rn[r] >= 2

\* C2: the response of every get_current, get_history and get_stats call is
\* what the call returns on the store as it was at one instant between the
\* call's start and its return.
C2_ReadsSeeOneInstant ==
    \A r \in Readers :
        rpc[r] = "done" =>
            \E n \in rfrom[r]..Len(snaps) :
                CASE resp[r].kind = "current" ->
                         resp[r].body =
                             IF n = 1 THEN InitCurrent
                             ELSE MakeCurrent(log[n - 1])
                  [] resp[r].kind = "history" ->
                         resp[r].body =
                             GetHistoryOf(snaps[n], rcutoff[r],
                                          rargs[r].points)
                  [] OTHER -> resp[r] = GetStatsOf(snaps[n])

\* C3: whenever data_lock is not held, every list of shared_data['history']
\* has at most max_points entries.
C3_HistoryWithinCap ==
    data_lock = NoThread =>
        \A k \in HistKeySet : Len(hist[k]) <= max_points

\* The store at rest after more writes than the cap, every list full.
C3_Witness ==
    /\ data_lock = NoThread
    /\ Len(log) > max_points
    /\ \A k \in HistKeySet : Len(hist[k]) = max_points

\* C4: after n writes, with data_lock not held, each history list holds the
\* last min(n, max_points) values written for its channel, in write order.
C4_HistoryIsLastWrites ==
    data_lock = NoThread =>
        LET n == Len(log)
            m == Min2(n, max_points)
        IN  \A k \in HistKeySet :
                hist[k] = [i \in 1..m |-> HistValue(log[n - m + i], k)]

\* The store at rest after an eviction: the oldest entry kept is that of
\* the second write still within the cap, the first write is gone.
C4_Witness ==
    /\ data_lock = NoThread
    /\ Len(log) = max_points + 1
    /\ hist["cpm_h"][1] = log[2].cpm_h
    /\ hist["cpm_h"][max_points] = log[max_points + 1].cpm_h

\* C5: the arrays of every get_history response all have the same length.
C5_SeriesOfEqualLength ==
    \A r \in Readers :
        Returned(r, "history") =>
            \A k \in HistKeySet :
                Len(resp[r].body[k]) = Len(resp[r].body["timestamps"])

\* C6: for points >= 1, every series get_history returns has at most points
\* entries.
C6_AtMostPoints ==
    \A r \in Readers :
        (Returned(r, "history") /\ rargs[r].points >= 1) =>
            \A k \in HistKeySet : Len(resp[r].body[k]) <= rargs[r].points

\* C7: every timestamp get_history(minutes) returns lies in
\* [now - minutes * 60, now].
C7_WithinWindow ==
    \A r \in Readers :
        Returned(r, "history") =>
            \A i \in 1..Len(resp[r].body["timestamps"]) :
                /\ resp[r].body["timestamps"][i] >= rcutoff[r]
                /\ resp[r].body["timestamps"][i] <= now

\* C8: a connected subscriber receives, for every update_shared_data call
\* whose broadcast began after it was added to ws_clients, exactly one
\* message, carrying that call's snapshot, in the order the store applied
\* the writes.
C8_EveryWriteOnceInOrder ==
    \A s \in Subs :
        LET B == Broadcasts(s) IN
            /\ \A i \in 1..Len(B) : B[i].data = MakeCurrent(log[B[i].n])
            /\ \A i, j \in 1..Len(B) : i < j => B[i].n < B[j].n
            /\ (s \in ws_clients /\ \A w \in Writers : wpc[w] = "idle") =>
                   {B[i].n : i \in 1..Len(B)} = due[s]

\* C9: the first message a subscriber receives is the snapshot sent on
\* connect, and every later message is the notification of a write applied
\* after that snapshot was taken.
C9_SnapshotFirst ==
    \A s \in Subs :
        \A i \in 1..Len(inbox[s]) :
            IF i = 1 THEN inbox[s][i].kind = "init"
            ELSE /\ inbox[s][i].kind = "bcast"
                 /\ inbox[s][i].n > inbox[s][1].n

\* C10: a subscriber whose send blocks or fails never keeps (a) another
\* subscriber of the same broadcast waiting for the update, (b) the thread
\* in update_shared_data from returning, nor the next write from taking
\* data_lock.
C10_NoSubscriberBlocks ==
    /\ \A w \in Writers :
           (wpc[w] = "send" /\ mode[wcur[w]] = "slow") =>
               \A s \in wrem[w] : mode[s] # "ok"
    /\ \A w \in Writers : ~(wpc[w] = "send" /\ mode[wcur[w]] = "slow")
    /\ \A w \in Writers, s \in Subs :
           ~(wpc[w] = "lock" /\ spc[s] = "init_send" /\ mode[s] = "slow")

\* Subscriber s has received the broadcast of write number n.
Got(s, n) == \E i \in 1..Len(inbox[s]) :
                 inbox[s][i].kind = "bcast" /\ inbox[s][i].n = n

\* C11: no ws.send is performed by a thread that holds data_lock, neither
\* in the broadcast of a write nor in the send on connect.
C11_NoSendUnderDataLock ==
    /\ \A w \in Writers : wpc[w] = "send" => data_lock # w
    /\ \A s \in Subs : spc[s] = "init_send" => data_lock # s

\* C12: when broadcast_to_websockets returns, every subscriber that was in
\* ws_clients has either received the message or had its send raise; the
\* return removes from ws_clients exactly those whose send raised, releases
\* ws_lock and gives control back to update_shared_data.
C12_FailedSendRemovesOnlyThatSubscriber ==
    [][\A w \in Writers :
          (wpc[w] = "cleanup" /\ wpc'[w] # "cleanup") =>
              /\ \A s \in ws_clients : Got(s, wn[w]) \/ s \in wdisc[w]
              /\ ws_clients' = {s \in ws_clients : Got(s, wn[w])}
              /\ wpc'[w] = "idle"
              /\ ws_lock' = NoThread]_vars

\* A broadcast has returned that reached two subscribers: one got the
\* message and is still subscribed, the send to the other raised and it was
\* removed while its handler had not yet left ws.receive.
C12_Witness ==
    /\ \A w \in Writers : wpc[w] = "idle"
    /\ \E s1, s2 \in Subs :
          /\ s1 \in ws_clients /\ s2 \notin ws_clients
          /\ spc[s2] = "recv" /\ mode[s2] = "dead"
          /\ \E n \in due[s1] \cap due[s2] : Got(s1, n) /\ ~Got(s2, n)

\* C19: get_stats returns the 'No data available' error while no sample has
\* been written, and a stats object once a write has completed before the
\* request.
C19_StatsOrNoData ==
    \A r \in Readers :
        (rpc[r] = "done" /\ rargs[r].op = "stats") =>
            /\ Len(log) = 0 => resp[r] = ErrorNoData
            /\ rfrom[r] >= 2 => resp[r].kind = "stats"
            /\ resp[r].kind \in {"stats", "error"}
            /\ resp[r].kind = "error" => resp[r] = ErrorNoData

\* get_stats has returned the error on a store no write ever reached.
C19_Witness ==
    \E r \in Readers :
        /\ rpc[r] = "done" /\ rargs[r].op = "stats"
        /\ Len(log) = 0 /\ resp[r] = ErrorNoData

\* C20: a detect function makes at most max_attempts (two) probes, changes
\* the candidate address at most once, and has returned once it has made its
\* second probe, whatever the probes come to.
C20_DetectionBounded ==
    /\ det.probes <= 2
    /\ det.probes <= max_attempts
    /\ det.swaps <= 1
    /\ det.attempt = det.probes
    /\ det.probes = 2 => det.returned

\* detect_gmc500 has returned after a second probe on the swapped ports.
C20_Witness ==
    /\ det.fn = "detect_gmc500"
    /\ det.returned
    /\ det.probes = 2
    /\ det.swaps = 1
    /\ det.port_500 = PORT_390_DEFAULT

\* A response that does not decode, in the words of the claim: empty, of
\* the wrong length (GMC-500: not exactly 4 bytes), without the token index,
\* or with a token that is no number.
Malformed(cmd, r) ==
    IF cmd \in {"GETCPMH", "GETCPML"} THEN Len(r) # 4
    ELSE LET i == IF cmd = "GETRFTOTALDENSITY" THEN 1 ELSE 3
         IN  r = <<>> \/ Len(r) < i \/ ~r[i].num

\* The reader thread p is inside its while loop.
InLoop(p) == ppc[p] \notin {"start", "exited", "dead"}

\* C13: once a reader has had max_consecutive_errors responses in a row
\* that did not decode, it has made exactly one reconnect attempt by the time
\* it goes on polling.
C13_OneReconnectAfterMalformed ==
    \A p \in Pollers :
        (badrun[p] >= max_consecutive_errors /\ ppc[p] \in {"write", "sleep"})
            => reopens[p] = 1

\* C14: a reader whose connection is gone always comes to reopen it again,
\* and if the device is reachable from some time on, the reader stores
\* readings again and again.
C14_PollerNeverGivesUp ==
    \A p \in Pollers :
        /\ []((InLoop(p) /\ ser[p] # "open") => <>(ppc[p] = "reopen"))
        /\ (<>[](InLoop(p) /\ link[p] = "ok")) => []<>(ppc[p] = "store")

\* C16: a response that does not decode changes no stored value, raises
\* nothing out of the loop body, and the loop body goes on with the next
\* command (or ends the iteration after the last one).
C16_MalformedResponseSkipped ==
    [][\A p \in Pollers :
          (ppc[p] = "decode" /\ ppc'[p] # "decode"
           /\ Malformed(Cmd(p), presp[p])) =>
              /\ sensor' = sensor
              /\ consecutive_errors' = consecutive_errors
              /\ IF pcmd[p] < Len(Commands(p))
                    THEN ppc'[p] = "write" /\ pcmd'[p] = pcmd[p] + 1
                    ELSE ppc'[p] = "sleep"]_vars

\* The response to the first command of an iteration did not decode, the
\* reading stored earlier is still there, and the loop is at the second
\* command.
C16_Witness ==
    \E p \in Pollers :
        /\ badrun[p] >= 1
        /\ ppc[p] = "write" /\ pcmd[p] = 2
        /\ sensor[GlobalOf(Commands(p)[1])] = 258

\* C17: a reader thread that has entered its while loop never leaves it.
C17_LoopNeverExits ==
    [][\A p \in Pollers : InLoop(p) => InLoop(p)']_vars

\* A reader is back at the head of its loop after the except Exception
\* clause handled the AttributeError of a port that is None.
C17_Witness ==
    \E p \in Pollers :
        /\ ppc[p] = "write"
        /\ ser[p] = None
        /\ consecutive_errors[p] >= 2

\* The GPS source gave no fix on this tick, in the words of the claim: gpsd
\* is unavailable, the read timed out, the mode is below 2, or a call raised.
NoFix(a) == a.get # "ok" \/ a.mode < 2 \/ a.raises # "none"

\* The tick is past its GPS read.
PastGps == nticks > 0 /\ gpc # "gps"

\* C18: on a tick on which the GPS source gives no fix, lat, lon, alt and
\* vel are all 0, and so are the four values update_shared_data stores for
\* the tick.
C18_NoFixGivesNeutral ==
    (PastGps /\ NoFix(answer)) =>
        /\ fix = ZeroFix
        /\ (gpc = "call" /\ wpc["w1"] = "idle") =>
              /\ current.latitude = 0 /\ current.longitude = 0
              /\ current.altitude = 0 /\ current.velocity = 0

\* C15: a reader holds its lock only for the assignment of one value, and
\* the GUI thread only for its reads; a reader never waits for the reader
\* of the other device, whatever that one is doing (in graph.py a thread
\* of the same device may be at its assignment), and the GUI thread waits
\* for a reader only while that reader is at an assignment.
C15_PollersIndependent ==
    /\ \A l \in Locks : \A p \in Threads :
          locks[l] = p => (l = LockOf(p) /\ ppc[p] = "store")
    /\ \A l \in Locks :
          locks[l] = GuiThread =>
              gpc = (IF l = "cpm_lock" THEN "cpm_read" ELSE "emf_read")
    /\ \A p \in active.pollers :
          InLoop(p) =>
              \/ ENABLED PollerStep(p)
              \/ ppc[p] = "lock" /\ locks[LockOf(p)] = GuiThread
              \/ /\ ppc[p] = "lock"
                 /\ \E t \in Sharers(p) :
                        locks[LockOf(p)] = t /\ ppc[t] = "store"
    /\ (gpc \in Locks /\ locks[gpc] # NoThread) =>
          \E p \in Threads : locks[gpc] = p /\ ppc[p] = "store"

\* The EMF reader is at the reopen of a port it closed after an I/O error,
\* the CPM reader is storing a reading, and the GUI thread has read the
\* CPM values stored before.
C15_Witness ==
    /\ ppc["emf"] = "reopen" /\ ser["emf"] = "closed"
    /\ ppc["cpm"] = "store" /\ locks["cpm_lock"] = "cpm"
    /\ gpc = "emf_lock" /\ vals["cpm_h_value"] = 1

\* A broadcast is iterating over ws_clients.
Iterating(w) == wpc[w] \in {"loop", "send"}

\* C23: every step that changes ws_clients is taken by the thread that holds
\* ws_lock, at its add, its discard or its difference_update, and the lock
\* is released with it; no step changes ws_clients while a broadcast is
\* iterating over it.
C23_ClientsMutatedUnderLock ==
    [][ws_clients' # ws_clients =>
          /\ ws_lock # NoThread
          /\ ws_lock' = NoThread
          /\ ws_lock \in Subs =>
                spc[ws_lock] \in {"add", "discard"} /\ spc'[ws_lock] # spc[ws_lock]
          /\ ws_lock \in Writers =>
                wpc[ws_lock] = "cleanup" /\ wpc'[ws_lock] = "idle"
          /\ \A w \in Writers : ~Iterating(w)]_vars

\* A handler whose connection failed waits for ws_lock to discard its
\* client while a broadcast that holds the lock is iterating over the set
\* that still has the client.
C23_Witness ==
    \E s \in Subs : \E w \in Writers :
        /\ spc[s] = "finally_lock"
        /\ s \in ws_clients
        /\ ws_lock = w
        /\ Iterating(w)

C25_TimestampsNonDecreasing ==
    \A i \in 1..(Len(hist["timestamps"]) - 1) :
        hist["timestamps"][i] <= hist["timestamps"][i + 1]

\* C24: a subscriber whose handler's receive timed out (the client sent
\* nothing for the idle timeout) is eventually dropped: the handler ends and
\* the subscriber is out of ws_clients.
C24_IdleSubscriberDropped ==
    \A s \in Subs :
        (spc[s] = "message") ~> (spc[s] = "closed" /\ s \notin ws_clients)

C29_FailedPollCounts ==
    [][\A p \in Pollers :
          (active.script = "graph_faster"
           /\ ppc[p] = "decode" /\ ppc'[p] # "decode"
           /\ Malformed(Cmd(p), presp[p])) =>
              consecutive_errors'[p] = consecutive_errors[p] + 1]_vars

\* C30: the step that stores a decoded reading stores it in the global of
\* the command and leaves the reader's consecutive-error counter at 0,
\* whichever the command.
C30_EveryDecodeResets ==
    [][\A p \in Pollers :
          (active.script = "graph_faster"
           /\ ppc[p] = "store" /\ ppc'[p] # "store") =>
              /\ sensor'[GlobalOf(Cmd(p))] = pv[p]
              /\ consecutive_errors'[p] = 0]_vars

\* The globals a reader stores its readings in.
GlobalsOf(p) == {GlobalOf(Commands(p)[i]) : i \in 1..Len(Commands(p))}

\* C27: once the bring-up is over, a device that did not answer with its
\* identity on either address has no persistent connection, its reader is
\* not in its loop, and its globals are 0.
C27_NoDeviceIsTerminal ==
    \A p \in Pollers :
        (active.detect /\ dpc = "threads" /\ ~detected[p]) =>
            /\ ser[p] = None
            /\ ~InLoop(p)
            /\ \A g \in GlobalsOf(p) : sensor[g] = 0

\* C21: once closeEvent has returned, both device connections are closed and
\* stay closed, and no reader calls write on a port or opens one again: the
\* readers have been told to stop and have left their loops.
C21_ShutdownStopsPollers ==
    [][gpc = "closed" =>
          /\ \A p \in active.pollers : ser[p] # "open"
          /\ \A p \in active.pollers : ~PWrite(p) /\ ~PReopen(p)]_vars

\* C22: a device connection is used by one reader thread: no two threads
\* have, at the same time, written a command on the same connection and the
\* response still to read.
C22_ConnectionsExclusive ==
    \A p, t \in Threads :
        (p # t /\ Conn(p) = Conn(t)) => ~(ppc[p] = "read" /\ ppc[t] = "read")

\* The entries of values at the indices 0, s, 2s, ... (counted from 0), in
\* the order of the list.
EveryNth(values, s) ==
    LET kept == {j \in 0..(Len(values) - 1) :
                    \E m \in 0..Len(values) : j = m * s}
        nth(i) == CHOOSE j \in kept : Cardinality({x \in kept : x < j}) = i - 1
    IN  [i \in 1..Cardinality(kept) |-> values[nth(i) + 1]]

\* The response to the query hq is the one described: with L the length of
\* the filtered series, the entries at 0, s, 2s, ... for s = floor(L / points)
\* of every channel when L > points, the filtered series itself otherwise.
StridedAsDescribed ==
    LET F == FilteredHistory(hq)
        L == Len(F["timestamps"])
    IN  /\ hres.kind = "history"
        /\ IF hq.h["timestamps"] = <<>> THEN hres.body = hq.h
           ELSE IF L > hq.points
             THEN /\ hq.points # 0
                  /\ \A k \in HistKeySet :
                         hres.body[k] = EveryNth(F[k], FloorDiv(L, hq.points))
           ELSE hres.body = F

Chronological(timestamps) ==
    \A i, j \in 1..Len(timestamps) : i <= j => timestamps[i] <= timestamps[j]

\* C37: for every integer minutes and points and every stored history,
\* get_history returns a response with one series per channel whose
\* entries are in chronological order, never an unhandled error.
C37_GetHistoryTotal ==
    hres # NoResponse =>
        /\ hres.kind = "history"
        /\ DOMAIN hres.body = HistKeySet
        /\ Chronological(hres.body["timestamps"])

\* C32: a subscriber enters ws_clients only by its handler's add and leaves
\* it only when that handler ends or when a broadcast whose send to it
\* failed cleans up; while it is a member its handler has added it and not
\* yet returned; once the handler has returned the subscriber is not a
\* member, no broadcast is at a send to it and it gets no further message.
C32_MemberOnlyWhileHandled ==
    [][\A s \in Subs :
          /\ s \in ws_clients =>
                 spc[s] \in {"init_lock", "init_send", "recv", "message",
                             "finally_lock", "discard"}
          /\ (s \notin ws_clients /\ s \in ws_clients') => spc[s] = "add"
          /\ (s \in ws_clients /\ s \notin ws_clients') =>
                 \/ spc[s] = "discard" /\ spc'[s] = "closed"
                 \/ \E w \in Writers : wpc[w] = "cleanup" /\ s \in wdisc[w]
          /\ spc[s] = "closed" =>
                 /\ s \notin ws_clients /\ s \notin ws_clients'
                 /\ inbox'[s] = inbox[s]
                 /\ \A w \in Writers :
                        ~(wpc[w] = "send" /\ wcur[w] = s) /\ s \notin wrem[w]]_vars

\* A handler has returned after the send on connect failed, and a later
\* write is being broadcast, to the other subscriber only.
C32_Witness ==
    \E s \in Subs, w \in Writers :
        /\ spc[s] = "closed" /\ inbox[s] = <<>> /\ s \notin ws_clients
        /\ wpc[w] = "send" /\ wcur[w] # s

\* The locks thread t holds.
HeldBy(t) ==
    {l \in {"data_lock"} : data_lock = t} \cup {l \in {"ws_lock"} : ws_lock = t}
        \cup {l \in Locks : locks[l] = t}

\* Thread t is at the acquisition of a lock.
AtAcquire(t) ==
    \/ t \in Writers /\ wpc[t] \in {"lock", "ws_lock"}
    \/ t \in Subs /\ spc[t] \in {"add_lock", "init_lock", "finally_lock"}
    \/ t \in Readers /\ rpc[t] = "lock"
    \/ t \in Threads /\ ppc[t] = "lock"
    \/ t = GuiThread /\ gpc \in Locks

\* C34: no thread holds two of data_lock, ws_lock, emf_lock and cpm_lock
\* at once (the GUI thread counted together with the update_shared_data
\* call it makes), and no holder of a lock is waiting for a lock: nothing
\* can deadlock on lock acquisition.
C34_OneLockAtATime ==
    LET All == Writers \cup Readers \cup Subs \cup Threads \cup {GuiThread}
    IN  /\ \A t \in All : Cardinality(HeldBy(t)) <= 1
        /\ active.gui => Cardinality(HeldBy(GuiThread) \cup HeldBy("w1")) <= 1
        /\ \A t \in All : HeldBy(t) # {} => ~AtAcquire(t)
        /\ (active.gui /\ HeldBy(GuiThread) # {}) => wpc["w1"] = "idle"

\* A writer holds ws_lock for its broadcast, a subscriber's handler holds
\* data_lock for its send on connect, and the other writer waits for
\* data_lock.
C34_Witness ==
    \E w, w2 \in Writers, s \in Subs :
        /\ ws_lock = w /\ data_lock = s
        /\ w2 # w /\ wpc[w2] = "lock"

\* C35: whenever data_lock is not held, the eight lists of
\* shared_data['history'] have the same length, and for every index the
\* entries of the eight lists at that index are the values of one
\* update_shared_data call.
C35_HistoryRowsAligned ==
    data_lock = NoThread =>
        /\ \A k \in HistKeySet : Len(hist[k]) = Len(hist["timestamps"])
        /\ \A i \in 1..Len(hist["timestamps"]) :
               \E n \in 1..Len(log) :
                   \A k \in HistKeySet : hist[k][i] = HistValue(log[n], k)

\* The store at rest, every list holding the values of max_points writes,
\* while the two writers are both in update_shared_data, one of them
\* waiting for data_lock.
C35_Witness ==
    /\ data_lock = NoThread
    /\ Len(log) = max_points
    /\ \A k \in HistKeySet : Len(hist[k]) = max_points
    /\ \E w, w2 \in Writers :
           w # w2 /\ wpc[w] = "lock" /\ wpc[w2] \in {"read_current", "ws_lock"}

\* C33: _read_response_bg returns the empty string, without entering the
\* coalescing phase, when no byte was there before the first-byte deadline;
\* once bytes have arrived it appends what each gap window brings and
\* returns when a window has passed without new bytes; a call on the port
\* that raises ends the phase it is in and what is buffered is returned;
\* and the call returns.
C33_ReadPolicy ==
    /\ [][rr'.pc # rr.pc =>
          /\ (rr.pc = "first_test" /\ rr'.pc = "if_buf" /\ rr.buf = <<>>) =>
                  rr.t >= rr.deadline
          /\ (rr.pc = "if_buf" /\ rr.buf = <<>>) =>
                  (rr'.pc = "return" /\ ~rr'.coalesced)
          /\ (rr.pc = "gap_poll" /\ ~rr.broken /\ rr.waiting # <<>>) =>
                  /\ rr'.buf = rr.buf \o rr.waiting
                  /\ rr'.pc = "gap_test"
                  /\ rr'.gap_dead = rr.t + gap_next_s
          /\ (rr.pc = "gap_test" /\ rr'.pc = "return") =>
                  /\ rr.t = rr.gap_dead
                  /\ rr.t - rr.last \in {gap_s, gap_next_s}
          /\ (rr.pc \in {"first_poll", "gap_poll"} /\ rr.broken) =>
                  /\ rr'.buf = rr.buf
                  /\ rr'.pc = IF rr.pc = "first_poll" THEN "if_buf" ELSE "return"
          /\ (rr.pc = "return" /\ rr'.pc = "done") =>
                  /\ rr'.result = DecodeStrip(rr.buf)
                  /\ rr.buf = <<>> => (rr'.result = <<>> /\ ~rr.coalesced)]_vars
    /\ <>(rr.pc = "done")

\* A call has returned two chunks of text: it read the first before the
\* deadline and the second within the gap window that the first opened.
C33_Witness ==
    /\ rr.pc = "done"
    /\ rr.result = <<"text", "text">>
    /\ rr.coalesced
    /\ rr.last > 0

\* C36: a value stored for a channel comes from the device's response to
\* that channel's own command: a thread that is about to store holds in v
\* the decoded answer to the command its loop body is at, never an answer
\* that came late to an earlier command.
C36_StoredFromOwnCommand ==
    \A p \in Threads : ppc[p] = "store" => pfrom[p] = Cmd(p)

\* The last k entries of a sequence, in their order.
MostRecent(s, k) == SubSeq(s, Len(s) - k + 1, Len(s))

Min(a, b) == IF a <= b THEN a ELSE b

\* The eight buffers have one length, at most their maxlen, which is
\* max(min_deque_len, minutes * seconds_per_minute * rate) for the window
\* chosen.
BuffersInStep ==
    \A b \in Buffers :
        /\ Len(gb.bufs[b].items) = Len(gb.bufs["t_buf"].items)
        /\ Len(gb.bufs[b].items) <= gb.bufs[b].maxlen
        /\ gb.bufs[b].maxlen =
               Max(min_deque_len,
                   gb.TIME_WINDOW_MIN * seconds_per_minute
                       * Max(1, 1000 \div UPDATE_MS))

\* A tick appends one entry to every buffer: the buffer ends with an entry
\* of this tick (the time in t_buf), before it are the entries it had, less
\* its oldest if it was full.
TickAppendsOne ==
    gb'.n = gb.n + 1 =>
        \A b \in Buffers :
            LET old == gb.bufs[b].items
                new == gb'.bufs[b].items IN
            /\ new # <<>>
            /\ \E v \in BufSamples :
                   new[Len(new)] = BufEntry(b, gb'.n, v)
            /\ SubSeq(new, 1, Len(new) - 1) =
                   (IF Len(old) < gb.bufs[b].maxlen THEN old ELSE Tail(old))

\* change_time_window keeps the most recent min(len, new_max) entries of
\* every buffer, in their order.
ResizeKeepsRecent ==
    (gb'.n = gb.n /\ gb' # gb) =>
        \A b \in Buffers :
            LET old == gb.bufs[b].items IN
            gb'.bufs[b].items =
                MostRecent(old, Min(Len(old), gb'.bufs[b].maxlen))

\* C38: the eight GUI ring buffers always have the same length and never
\* more than maxlen entries, each tick appends exactly one entry to every
\* buffer, and change_time_window keeps the most recent min(len, new_max)
\* entries of every buffer in their original order.
C38_RingBuffers ==
    /\ [](gb.on => BuffersInStep)
    /\ [][TickAppendsOne /\ ResizeKeepsRecent]_vars

\* Five ticks in a window of three minutes, then the window of one minute
\* is chosen: of the five entries the last three are kept.
C38_Witness ==
    /\ gb.on
    /\ gb.last = "resize"
    /\ gb.TIME_WINDOW_MIN = 1
    /\ gb.n = 5
    /\ gb.bufs["t_buf"].items = <<3, 4, 5>>
    /\ gb.bufs["emf_buf"].items = <<0, 1, 0>>

\* The values a device has in the payload when its read went well.
Reading(d) ==
    CASE d = "gps" -> GpsFix
      [] d = "geiger" -> <<1, 1>>
      [] d = "emf" -> <<1, 1>>

\* The values a device has in the payload when its read failed.
Neutral(d) == IF d = "gps" THEN <<0, 0, 0, 0>> ELSE <<0, 0>>

\* A cycle that has published has read GPS, Geiger counter and EMF meter
\* in this order and has published one payload.
CycleInOrder ==
    ms.pc = "sleep" => (ms.reads = Devices /\ ms.sent = 1)

\* In the payload a device whose read failed has zeros, and the others
\* have their readings.
FailedReadIsNeutral ==
    ms.pc = "sleep" =>
        \A i \in 1..Len(Devices) :
            LET d == Devices[i] IN
            ms.outbox[d] = IF d \in ms.failed THEN Neutral(d) ELSE Reading(d)

\* The loop is left on KeyboardInterrupt only, and is not entered when
\* connect_mqtt failed.
EndsOnInterruptOnly ==
    /\ ms.pc \in {"cleanup", "done"} => ms.sigints > 0
    /\ ms.mqtt = "failed" =>
           (ms.cycle = 0 /\ ms.reads = <<>> /\ ms.pc = "returned")

\* C39: in sensor_loop each cycle reads GPS, then the Geiger counter, then
\* the EMF meter, and then publishes exactly one payload; a failed read
\* yields zeros for that device only and does not prevent the publish; the
\* loop ends only on KeyboardInterrupt and never starts when the initial
\* MQTT connect fails.
C39_SensorLoop ==
    ms.pc # "none" =>
        (CycleInOrder /\ FailedReadIsNeutral /\ EndsOnInterruptOnly)

====
